---------------------------- MODULE Spec2Model ----------------------------
(***************************************************************************)
(* A model of the DCFMaker projection and valuation engine:                *)
(*   src/operating_model.py  OperatingModel  (normalise, project, combine) *)
(*   src/dcf_calculator.py   DCFCalculator   (WACC, FCF, TV, PV, EV)       *)
(*   src/app.py              calculate_dcf   (the request handler)         *)
(*                                                                         *)
(* Numbers.  Python floats are modelled as exact rationals <<n, d>> with   *)
(* d > 0 and gcd(|n|, d) = 1.  NaN is <<0, 0>>.  A raw cell that is not a  *)
(* number (None, text, a key the row lacks) is <<1, 0>>.  Rounding of the  *)
(* binary floating point format is not modelled.                           *)
(*                                                                         *)
(* Tables.  A pandas DataFrame is a record                                 *)
(*   [none, index, columns, at]                                            *)
(* none: the Python value is None; index: the row labels in row order;     *)
(* columns: the set of column labels; at[r][c]: the cell.  Row and column  *)
(* labels are strings, as in the code.                                     *)
(*                                                                         *)
(* Methods are operators from the object's fields to a record              *)
(*   [self, ret, exc]                                                      *)
(* exc names the Python exception the call raises ("none": it returns).    *)
(***************************************************************************)
EXTENDS Integers, Sequences, FiniteSets, TLC

(***************************************************************************)
(* Exact rational arithmetic                                               *)
(***************************************************************************)
AbsInt(n) == IF n < 0 THEN 0 - n ELSE n

RECURSIVE GCD(_, _)
GCD(a, b) == IF b = 0 THEN a ELSE GCD(b, a % b)

Q(n, d) ==
    IF d = 0 THEN <<0, 0>>
    ELSE LET s == IF d < 0 THEN 0 - 1 ELSE 1
             g == GCD(AbsInt(n), AbsInt(d))
         IN  <<(s * n) \div g, AbsInt(d) \div g>>

Z(n) == <<n, 1>>

NaN == <<0, 0>>
NonNumeric == <<1, 0>>

IsNaN(a) == a[2] = 0

Neg(a) == <<0 - a[1], a[2]>>
AbsQ(a) == <<AbsInt(a[1]), a[2]>>

Add(a, b) ==
    IF IsNaN(a) \/ IsNaN(b) THEN NaN
    ELSE LET g == GCD(a[2], b[2])
         IN  Q(a[1] * (b[2] \div g) + b[1] * (a[2] \div g), (a[2] \div g) * b[2])

Sub(a, b) == Add(a, Neg(b))

Mul(a, b) ==
    IF IsNaN(a) \/ IsNaN(b) THEN NaN
    ELSE LET g1 == GCD(AbsInt(a[1]), b[2])
             g2 == GCD(AbsInt(b[1]), a[2])
         IN  Q((a[1] \div g1) * (b[1] \div g2), (a[2] \div g2) * (b[2] \div g1))

\* A quotient by zero has no rational value: NaN.
Div(a, b) ==
    IF IsNaN(a) \/ IsNaN(b) \/ b[1] = 0 THEN NaN
    ELSE Mul(a, Q(b[2], b[1]))

RECURSIVE Pow(_, _)
Pow(a, k) == IF k = 0 THEN Z(1) ELSE Mul(a, Pow(a, k - 1))

IsZero(a) == a[2] # 0 /\ a[1] = 0
Lt(a, b) == a[1] * b[2] < b[1] * a[2]
Gt(a, b) == Lt(b, a)
MaxQ(a, b) == IF Lt(a, b) THEN b ELSE a
MinQ(a, b) == IF Lt(b, a) THEN b ELSE a

RECURSIVE SumSeq(_)
SumSeq(s) == IF s = <<>> THEN Z(0) ELSE Add(Head(s), SumSeq(Tail(s)))

\* pandas Series.mean() / numpy.mean of a non-empty sequence
Mean(s) == Div(SumSeq(s), Z(Len(s)))


(***************************************************************************)
(* Strings: year labels                                                    *)
(***************************************************************************)
\* The integers whose decimal form occurs as a label or a part of one.
YearRange == 1990 .. 2060

\* str(year)
Str(y) == ToString(y)

\* The label of a fiscal year end date, "2023-12-31".
DateLabel(y) == ToString(y) \o "-12-31"

\* y_str.isdigit()
IsDigit(s) == \E y \in YearRange : ToString(y) = s

\* int(y_str) of a string of digits
IntOf(s) == CHOOSE y \in YearRange : ToString(y) = s

\* '-' in y_str
HasDash(s) == (\E y \in YearRange : s = DateLabel(y)) \/ s = "FY-END"

\* y_str.split('-')[0]
SplitDashHead(s) ==
    IF \E y \in YearRange : s = DateLabel(y)
    THEN ToString(CHOOSE y \in YearRange : s = DateLabel(y))
    ELSE "FY"

(***************************************************************************)
(* Tables (pandas DataFrame)                                               *)
(***************************************************************************)
NoneDF == [none |-> TRUE, index |-> <<>>, columns |-> {}, at |-> <<>>]
EmptyDF == [none |-> FALSE, index |-> <<>>, columns |-> {}, at |-> <<>>]

SeqToSet(s) == {s[i] : i \in 1 .. Len(s)}

\* df.empty
Empty(df) == Len(df.index) = 0 \/ df.columns = {}

\* label in df.index
InIndex(df, r) == r \in SeqToSet(df.index)

\* df[c] = vals (vals: row label -> number); adds the column when it is new
SetCol(df, c, vals) ==
    [df EXCEPT !.columns = @ \cup {c},
               !.at = [r \in SeqToSet(df.index) |->
                         [k \in df.columns \cup {c} |->
                            IF k = c THEN vals[r] ELSE df.at[r][k]]]]

\* df[c] as a function of the row label
Col(df, c) == [r \in SeqToSet(df.index) |-> df.at[r][c]]

\* the values of column c in row order
ColSeq(df, c) == [i \in 1 .. Len(df.index) |-> df.at[df.index[i]][c]]

\* pd.to_numeric(x, errors='coerce') of one cell
ToNumeric(v) == IF v[2] = 0 THEN NaN ELSE v

\* .fillna(0) of one cell
Fillna0(v) == IF IsNaN(v) THEN Z(0) ELSE v

\* every column: pd.to_numeric(col, errors='coerce').fillna(0)
CoerceNumeric(df) ==
    [df EXCEPT !.at = [r \in SeqToSet(df.index) |->
                         [k \in df.columns |-> Fillna0(ToNumeric(df.at[r][k]))]]]

\* pd.DataFrame(d).T of a historical statement d given as year -> item -> value
FrameOfDict(d) ==
    [none |-> FALSE, index |-> d.keys, columns |-> d.items, at |-> d.cell]

\* bool(d): a missing key, None and {} are falsy
Truthy(d) == d.kind \in {"table", "scalars"}

(***************************************************************************)
(* OperatingModel.prepare_historical_data                                  *)
(***************************************************************************)
ExpenseItems ==
    {"COGS", "SG&A", "InterestExpense", "TaxExpense", "D&A",
     "OtherOperatingExpenses", "OtherUnusualItems"}

\* x + df[c] when the column is there, x otherwise (x: row label -> number)
PlusCol(x, df, c) ==
    IF c \in df.columns THEN [r \in DOMAIN x |-> Add(x[r], df.at[r][c])] ELSE x

\* variant of lines 52-58 that flips the sign instead of taking -abs
NormalizeExpensesNegate(df) ==
    [df EXCEPT !.at = [r \in SeqToSet(df.index) |->
                         [k \in df.columns |->
                            IF k \in ExpenseItems
                            THEN Neg(df.at[r][k])
                            ELSE df.at[r][k]]]]

\* expense columns become -abs(value)
NormalizeExpenses(df) ==
    [df EXCEPT !.at = [r \in SeqToSet(df.index) |->
                         [k \in df.columns |->
                            IF k \in ExpenseItems
                            THEN Neg(AbsQ(df.at[r][k]))
                            ELSE df.at[r][k]]]]

\* InterestIncome becomes abs(value)
NormalizeInterestIncome(df) ==
    IF "InterestIncome" \in df.columns
    THEN SetCol(df, "InterestIncome",
                [r \in SeqToSet(df.index) |-> AbsQ(df.at[r]["InterestIncome"])])
    ELSE df

\* variant of lines 64-68 that leaves a GrossProfit column of the raw data alone
FillGrossProfitIfAbsent(df) ==
    IF /\ "GrossProfit" \notin df.columns
       /\ "Revenue" \in df.columns
       /\ "COGS" \in df.columns
    THEN SetCol(df, "GrossProfit",
                [r \in SeqToSet(df.index) |->
                   Add(df.at[r]["Revenue"], df.at[r]["COGS"])])
    ELSE df

\* GrossProfit = Revenue + COGS, assigned whenever both columns are there
FillGrossProfit(df) ==
    IF "Revenue" \in df.columns /\ "COGS" \in df.columns
    THEN SetCol(df, "GrossProfit",
                [r \in SeqToSet(df.index) |->
                   Add(df.at[r]["Revenue"], df.at[r]["COGS"])])
    ELSE df

FillOperatingIncome(df) ==
    IF "OperatingIncome" \notin df.columns /\ "GrossProfit" \in df.columns
    THEN SetCol(df, "OperatingIncome",
                PlusCol(PlusCol(PlusCol(Col(df, "GrossProfit"),
                                        df, "SG&A"),
                                df, "OtherOperatingExpenses"),
                        df, "D&A"))
    ELSE df

FillEBITDA(df) ==
    IF /\ "EBITDA" \notin df.columns
       /\ "OperatingIncome" \in df.columns
       /\ "D&A" \in df.columns
    THEN SetCol(df, "EBITDA",
                [r \in SeqToSet(df.index) |->
                   Sub(df.at[r]["OperatingIncome"], df.at[r]["D&A"])])
    ELSE df

FillEBT(df) ==
    IF "EBT" \notin df.columns /\ "OperatingIncome" \in df.columns
    THEN SetCol(df, "EBT",
                PlusCol(PlusCol(PlusCol(Col(df, "OperatingIncome"),
                                        df, "InterestExpense"),
                                df, "InterestIncome"),
                        df, "OtherUnusualItems"))
    ELSE df

\* variant of lines 101-107 that recomputes NetIncome even when it is supplied
FillNetIncomeAlways(df) ==
    IF "EBT" \in df.columns
    THEN SetCol(df, "NetIncome", PlusCol(Col(df, "EBT"), df, "TaxExpense"))
    ELSE df

FillNetIncome(df) ==
    IF "NetIncome" \notin df.columns /\ "EBT" \in df.columns
    THEN SetCol(df, "NetIncome", PlusCol(Col(df, "EBT"), df, "TaxExpense"))
    ELSE df

\* lines 38-107: the income statement frame
PrepareIncome(d) ==
    FillNetIncome(FillEBT(FillEBITDA(FillOperatingIncome(FillGrossProfit(
        NormalizeInterestIncome(NormalizeExpenses(
            CoerceNumeric(FrameOfDict(d)))))))))

\* A statement whose years map to scalars instead of line-item mappings makes
\* pd.DataFrame raise; the except clause of prepare_historical_data returns False.
PrepareHistoricalData(self) ==
    LET hd == self.historical_data
        inc == hd.income_statement
        bal == hd.balance_sheet
        cfs == hd.cash_flow
        s1 == IF Truthy(inc) /\ inc.kind = "table"
              THEN [self EXCEPT !.income_statement = PrepareIncome(inc)]
              ELSE self
        s2 == IF Truthy(bal) /\ bal.kind = "table"
              THEN [s1 EXCEPT !.balance_sheet = CoerceNumeric(FrameOfDict(bal))]
              ELSE s1
        s3 == IF Truthy(cfs) /\ cfs.kind = "table"
              THEN [s2 EXCEPT !.cash_flow = CoerceNumeric(FrameOfDict(cfs))]
              ELSE s2
    IN  IF inc.kind = "scalars"
        THEN [self |-> self, ret |-> FALSE, exc |-> "none"]
        ELSE IF bal.kind = "scalars"
        THEN [self |-> s1, ret |-> FALSE, exc |-> "none"]
        ELSE IF cfs.kind = "scalars"
        THEN [self |-> s2, ret |-> FALSE, exc |-> "none"]
        ELSE [self |-> s3, ret |-> TRUE, exc |-> "none"]

(***************************************************************************)
(* OperatingModel.get_latest_year                                          *)
(***************************************************************************)
\* the years parsed from the index, unparseable labels dropped
ParsedYears(index) ==
    {IntOf(index[i]) : i \in {j \in 1 .. Len(index) : IsDigit(index[j])}}
    \cup
    {IntOf(SplitDashHead(index[i])) :
        i \in {j \in 1 .. Len(index) :
                 /\ ~IsDigit(index[j])
                 /\ HasDash(index[j])
                 /\ IsDigit(SplitDashHead(index[j]))}}

SetMax(S) == CHOOSE m \in S : \A x \in S : x <= m

\* variant of get_latest_year that answers the fixed year 2023 of dcf_calculator.py
\* line 75 where the method answers None
GetLatestYearOrDefault(self) ==
    IF /\ ~self.income_statement.none
       /\ ~Empty(self.income_statement)
       /\ ParsedYears(self.income_statement.index) # {}
    THEN Str(SetMax(ParsedYears(self.income_statement.index)))
    ELSE "2023"

\* "None" stands for the Python None the method returns
GetLatestYear(self) ==
    IF /\ ~self.income_statement.none
       /\ ~Empty(self.income_statement)
       /\ ParsedYears(self.income_statement.index) # {}
    THEN Str(SetMax(ParsedYears(self.income_statement.index)))
    ELSE "None"

(***************************************************************************)
(* OperatingModel.calculate_average_growth_rate                            *)
(***************************************************************************)
\* the growth rates of the steps i-1 -> i, from step i on, zero predecessors skipped
RECURSIVE GrowthRates(_, _)
GrowthRates(values, i) ==
    IF i > Len(values) THEN <<>>
    ELSE IF ~IsZero(values[i - 1])
    THEN <<Div(Sub(values[i], values[i - 1]), AbsQ(values[i - 1]))>>
         \o GrowthRates(values, i + 1)
    ELSE GrowthRates(values, i + 1)

CalculateAverageGrowthRate(series) ==
    IF Len(series) < 2 THEN Z(0)
    ELSE IF GrowthRates(series, 2) # <<>> THEN Mean(GrowthRates(series, 2))
    ELSE Z(0)

(***************************************************************************)
(* OperatingModel.project_income_statement                                 *)
(***************************************************************************)
DefaultRevenueGrowth == Q(5, 100)
DefaultGrossMargin == Q(5, 10)
GrossMarginFloor == Q(1, 10)
GrossMarginCap == Q(9, 10)
DefaultSgaPercent == Q(4, 10)
DefaultInterestExpense == Neg(Z(10))
DaOfRevenue == Q(3, 100)

\* An assumption is [given, v]: given = FALSE stands for None / an absent key.
NoneArg == [given |-> FALSE, v |-> Z(0)]
Given(x) == [given |-> TRUE, v |-> x]
\* the same for an integer
NoneInt == [given |-> FALSE, v |-> 0]

\* the rows, in row order, where both columns are non-zero
ValidRows(df, a, b) ==
    SelectSeq(df.index,
              LAMBDA r : ~IsZero(df.at[r][a]) /\ ~IsZero(df.at[r][b]))

\* lines 204-209
EffectiveRevenueGrowth(df, revenue_growth) ==
    IF revenue_growth.given THEN revenue_growth.v
    ELSE IF "Revenue" \in df.columns
    THEN CalculateAverageGrowthRate(ColSeq(df, "Revenue"))
    ELSE DefaultRevenueGrowth

\* variant of lines 211-227 without the clamp of line 223
EffectiveGrossMarginUnclamped(df, gross_margin) ==
    IF gross_margin.given THEN gross_margin.v
    ELSE IF "Revenue" \in df.columns /\ "COGS" \in df.columns
    THEN LET rows == ValidRows(df, "Revenue", "COGS")
         IN  IF rows # <<>>
             THEN Mean([i \in 1 .. Len(rows) |->
                          Div(Add(df.at[rows[i]]["Revenue"],
                                  df.at[rows[i]]["COGS"]),
                              df.at[rows[i]]["Revenue"])])
             ELSE DefaultGrossMargin
    ELSE DefaultGrossMargin

\* lines 211-227
EffectiveGrossMargin(df, gross_margin) ==
    IF gross_margin.given THEN gross_margin.v
    ELSE IF "Revenue" \in df.columns /\ "COGS" \in df.columns
    THEN LET rows == ValidRows(df, "Revenue", "COGS")
         IN  IF rows # <<>>
             THEN MaxQ(GrossMarginFloor,
                       MinQ(GrossMarginCap,
                            Mean([i \in 1 .. Len(rows) |->
                                    Div(Add(df.at[rows[i]]["Revenue"],
                                            df.at[rows[i]]["COGS"]),
                                        df.at[rows[i]]["Revenue"])])))
             ELSE DefaultGrossMargin
    ELSE DefaultGrossMargin

\* lines 229-241
EffectiveSgaPercent(df, sga_percent) ==
    IF sga_percent.given THEN sga_percent.v
    ELSE IF "Revenue" \in df.columns /\ "SG&A" \in df.columns
    THEN LET rows == ValidRows(df, "Revenue", "SG&A")
         IN  IF rows # <<>>
             THEN Mean([i \in 1 .. Len(rows) |->
                          Div(AbsQ(df.at[rows[i]]["SG&A"]),
                              df.at[rows[i]]["Revenue"])])
             ELSE DefaultSgaPercent
    ELSE DefaultSgaPercent

\* revenue_col[revenue_col != 0], in row order
NonZeroRevenues(df) ==
    SelectSeq(ColSeq(df, "Revenue"), LAMBDA v : ~IsZero(v))

\* lines 244-260: the revenue the projection starts from.  [ok, v]: ok = FALSE
\* is the "No valid revenue data found" return of an empty frame.
BaseRevenue(df, latest) ==
    LET latest_revenue == IF "Revenue" \in df.columns
                          THEN df.at[latest]["Revenue"] ELSE Z(0)
    IN  IF ~IsZero(latest_revenue) THEN [ok |-> TRUE, v |-> latest_revenue]
        ELSE IF "Revenue" \notin df.columns THEN [ok |-> TRUE, v |-> latest_revenue]
        ELSE IF NonZeroRevenues(df) # <<>>
        THEN [ok |-> TRUE, v |-> NonZeroRevenues(df)[Len(NonZeroRevenues(df))]]
        ELSE [ok |-> FALSE, v |-> Z(0)]

\* variant of line 267 with linear in place of compound growth
ProjectedRevenueLinear(latest_revenue, revenue_growth, year_offset) ==
    Mul(latest_revenue, Add(Z(1), Mul(revenue_growth, Z(year_offset))))

\* line 267
ProjectedRevenue(latest_revenue, revenue_growth, year_offset) ==
    Mul(latest_revenue, Pow(Add(Z(1), revenue_growth), year_offset))

\* variant of line 288 in which D&A grows at the full revenue growth rate
IncomeRowDaWithRevenue(df, latest, latest_revenue, g, gm, sga_percent, tax_rate, year_offset) ==
    LET latest_da == IF "D&A" \in df.columns THEN df.at[latest]["D&A"] ELSE Z(0)
        revenue == ProjectedRevenue(latest_revenue, g, year_offset)
        cogs == Mul(Neg(revenue), Sub(Z(1), gm))
        gross_profit == Add(revenue, cogs)
        sga == Mul(Neg(revenue), sga_percent)
        other_opex == Z(0)
        ebitda == Add(Add(gross_profit, sga), other_opex)
        da_positive == IF ~IsZero(latest_da)
                       THEN Mul(AbsQ(latest_da), Add(Z(1), g))
                       ELSE Mul(revenue, DaOfRevenue)
        da == Neg(da_positive)
        operating_income == Sub(ebitda, da)
        interest_expense == IF "InterestExpense" \in df.columns
                            THEN df.at[latest]["InterestExpense"]
                            ELSE DefaultInterestExpense
        other_unusual == Z(0)
        ebt == Add(Add(operating_income, interest_expense), other_unusual)
        tax_expense == Mul(Neg(ebt), tax_rate)
        net_income == Add(ebt, tax_expense)
    IN  [Revenue |-> revenue, COGS |-> cogs, GrossProfit |-> gross_profit,
         OtherOperatingExpenses |-> other_opex, EBITDA |-> ebitda,
         OperatingIncome |-> operating_income,
         InterestExpense |-> interest_expense,
         OtherUnusualItems |-> other_unusual, EBT |-> ebt,
         TaxExpense |-> tax_expense, NetIncome |-> net_income]
        @@ ("SG&A" :> sga) @@ ("D&A" :> da)

\* lines 263-326: one projected income row
IncomeRow(df, latest, latest_revenue, g, gm, sga_percent, tax_rate, year_offset) ==
    LET latest_da == IF "D&A" \in df.columns THEN df.at[latest]["D&A"] ELSE Z(0)
        revenue == ProjectedRevenue(latest_revenue, g, year_offset)
        cogs == Mul(Neg(revenue), Sub(Z(1), gm))
        gross_profit == Add(revenue, cogs)
        sga == Mul(Neg(revenue), sga_percent)
        other_opex == Z(0)
        ebitda == Add(Add(gross_profit, sga), other_opex)
        da_positive == IF ~IsZero(latest_da)
                       THEN Mul(AbsQ(latest_da), Add(Z(1), Mul(g, Q(1, 2))))
                       ELSE Mul(revenue, DaOfRevenue)
        da == Neg(da_positive)
        operating_income == Sub(ebitda, da)
        interest_expense == IF "InterestExpense" \in df.columns
                            THEN df.at[latest]["InterestExpense"]
                            ELSE DefaultInterestExpense
        other_unusual == Z(0)
        ebt == Add(Add(operating_income, interest_expense), other_unusual)
        tax_expense == Mul(Neg(ebt), tax_rate)
        net_income == Add(ebt, tax_expense)
    IN  [Revenue |-> revenue, COGS |-> cogs, GrossProfit |-> gross_profit,
         OtherOperatingExpenses |-> other_opex, EBITDA |-> ebitda,
         OperatingIncome |-> operating_income,
         InterestExpense |-> interest_expense,
         OtherUnusualItems |-> other_unusual, EBT |-> ebt,
         TaxExpense |-> tax_expense, NetIncome |-> net_income]
        @@ ("SG&A" :> sga) @@ ("D&A" :> da)

\* pd.DataFrame(projection_data, index=[str(latest_year + i) for i in 1..N])
ProjectionFrame(latest_year, n, rows) ==
    IF n = 0 THEN EmptyDF
    ELSE [none |-> FALSE,
          index |-> [i \in 1 .. n |-> Str(latest_year + i)],
          columns |-> DOMAIN rows[1],
          at |-> [r \in {Str(latest_year + i) : i \in 1 .. n} |->
                    rows[CHOOSE i \in 1 .. n : Str(latest_year + i) = r]]]

ProjectIncomeStatement(self, revenue_growth, gross_margin, sga_percent, tax_rate) ==
    LET df == self.income_statement
        latest == GetLatestYear(self)
    IN  IF df.none \/ Empty(df)
        THEN [self |-> self, ret |-> EmptyDF, exc |-> "none"]
        ELSE IF latest = "None"
        THEN [self |-> self, ret |-> EmptyDF, exc |-> "none"]
        ELSE IF ~InIndex(df, latest)
        THEN [self |-> self, ret |-> EmptyDF, exc |-> "KeyError"]
        ELSE IF ~BaseRevenue(df, latest).ok
        THEN [self |-> self, ret |-> EmptyDF, exc |-> "none"]
        ELSE [self |-> self,
              ret |-> ProjectionFrame(IntOf(latest), self.projection_years,
                        [t \in 1 .. self.projection_years |->
                           IncomeRow(df, latest, BaseRevenue(df, latest).v,
                                       EffectiveRevenueGrowth(df, revenue_growth),
                                       EffectiveGrossMargin(df, gross_margin),
                                       EffectiveSgaPercent(df, sga_percent),
                                       tax_rate, t)]),
              exc |-> "none"]

(***************************************************************************)
(* OperatingModel.project_balance_sheet                                    *)
(***************************************************************************)
CapexOfRevenue == Q(4, 100)
OtherLtAssetsGrowth == Q(2, 100)

\* variant that reads an absent line item as NaN, as a reindexed row would
ItemOrNaN(df, r, c) == IF c \in df.columns THEN df.at[r][c] ELSE NaN

\* latest_row[c] if c in columns else 0
ItemOr0(df, r, c) == IF c \in df.columns THEN df.at[r][c] ELSE Z(0)

\* lines 369-446: one projected balance-sheet row
BalanceRow(self, projected_income, latest, year_str) ==
    LET bs == self.balance_sheet
        inc == self.income_statement
        latest_revenue_val == IF "Revenue" \in inc.columns
                              THEN inc.at[latest]["Revenue"] ELSE Z(1)
        projected_revenue == projected_income.at[year_str]["Revenue"]
        cash == ItemOr0(bs, latest, "Cash")
        st_investments == ItemOr0(bs, latest, "ShortTermInvestments")
        current_assets ==
            IF Gt(latest_revenue_val, Z(0))
            THEN Mul(ItemOr0(bs, latest, "CurrentAssets"),
                     Div(projected_revenue, latest_revenue_val))
            ELSE ItemOr0(bs, latest, "CurrentAssets")
        capex == Mul(projected_revenue, CapexOfRevenue)
        da == AbsQ(projected_income.at[year_str]["D&A"])
        ppe == Sub(Add(ItemOr0(bs, latest, "PPE"), capex), da)
        other_lt_assets == Mul(ItemOr0(bs, latest, "OtherLongTermAssets"),
                               Add(Z(1), OtherLtAssetsGrowth))
        total_assets == Add(Add(current_assets, ppe), other_lt_assets)
        st_liabilities ==
            IF Gt(latest_revenue_val, Z(0))
            THEN Mul(ItemOr0(bs, latest, "ShortTermLiabilities"),
                     Div(projected_revenue, latest_revenue_val))
            ELSE ItemOr0(bs, latest, "ShortTermLiabilities")
        lt_debt == ItemOr0(bs, latest, "LongTermDebt")
        lt_leases == ItemOr0(bs, latest, "LongTermLeases")
        other_lt_liabilities == ItemOr0(bs, latest, "OtherLongTermLiabilities")
        total_liabilities ==
            Add(Add(Add(st_liabilities, lt_debt), lt_leases), other_lt_liabilities)
        retained_earnings == Add(ItemOr0(bs, latest, "RetainedEarnings"),
                                 projected_income.at[year_str]["NetIncome"])
        common_stock == ItemOr0(bs, latest, "CommonStock")
        paid_in_capital == ItemOr0(bs, latest, "PaidInCapital")
        total_equity == Add(Add(retained_earnings, common_stock), paid_in_capital)
    IN  [Cash |-> cash, ShortTermInvestments |-> st_investments,
         CurrentAssets |-> current_assets, PPE |-> ppe,
         OtherLongTermAssets |-> other_lt_assets, TotalAssets |-> total_assets,
         ShortTermLiabilities |-> st_liabilities, LongTermDebt |-> lt_debt,
         LongTermLeases |-> lt_leases,
         OtherLongTermLiabilities |-> other_lt_liabilities,
         TotalLiabilities |-> total_liabilities,
         RetainedEarnings |-> retained_earnings, CommonStock |-> common_stock,
         PaidInCapital |-> paid_in_capital, TotalEquity |-> total_equity]

\* KeyError: the latest year is no row of the balance sheet (line 366), or the
\* projected income statement came back empty (line 374).
ProjectBalanceSheet(self, projected_income) ==
    LET bs == self.balance_sheet
        latest == GetLatestYear(self)
        n == self.projection_years
    IN  IF bs.none \/ Empty(bs)
        THEN [self |-> self, ret |-> EmptyDF, exc |-> "none"]
        ELSE IF latest = "None"
        THEN [self |-> self, ret |-> EmptyDF, exc |-> "none"]
        ELSE IF ~InIndex(self.income_statement, latest) /\
                "Revenue" \in self.income_statement.columns
        THEN [self |-> self, ret |-> EmptyDF, exc |-> "KeyError"]
        ELSE IF ~InIndex(bs, latest)
        THEN [self |-> self, ret |-> EmptyDF, exc |-> "KeyError"]
        ELSE IF n >= 1 /\ ~InIndex(projected_income, Str(IntOf(latest) + 1))
        THEN [self |-> self, ret |-> EmptyDF, exc |-> "KeyError"]
        ELSE [self |-> self,
              ret |-> ProjectionFrame(IntOf(latest), n,
                        [t \in 1 .. n |-> BalanceRow(self, projected_income, latest,
                                              Str(IntOf(latest) + t))]),
              exc |-> "none"]

(***************************************************************************)
(* OperatingModel.project_cash_flow                                        *)
(***************************************************************************)
\* variant of lines 476-481 that takes the latest historical row as the previous
\* row in every year
CashFlowRowFromLatest(self, projected_income, projected_balance, latest_year, year_offset) ==
    LET year_str == Str(latest_year + year_offset)
        prev_year_str == Str(latest_year + year_offset - 1)
        net_income == projected_income.at[year_str]["NetIncome"]
        da == AbsQ(projected_income.at[year_str]["D&A"])
        prev_current_assets ==
            self.balance_sheet.at[Str(latest_year)]["CurrentAssets"]
        prev_st_liabilities ==
            self.balance_sheet.at[Str(latest_year)]["ShortTermLiabilities"]
        curr_current_assets == projected_balance.at[year_str]["CurrentAssets"]
        curr_st_liabilities == projected_balance.at[year_str]["ShortTermLiabilities"]
        change_ca == Sub(prev_current_assets, curr_current_assets)
        change_cl == Sub(curr_st_liabilities, prev_st_liabilities)
        change_wc == Add(change_ca, change_cl)
        cfo == Add(Add(net_income, da), change_wc)
        revenue == projected_income.at[year_str]["Revenue"]
        capex == Mul(Neg(revenue), CapexOfRevenue)
        investing_cf == capex
        financing_cf == Z(0)
        net_cf == Add(Add(cfo, investing_cf), financing_cf)
    IN  [NetIncome |-> net_income, ChangeInWorkingCapital |-> change_wc,
         ChangeInCurrentAssets |-> change_ca,
         ChangeInCurrentLiabilities |-> change_cl,
         OperatingCashFlow |-> cfo, CapitalExpenditures |-> capex,
         InvestingCashFlow |-> investing_cf, FinancingCashFlow |-> financing_cf,
         NetCashFlow |-> net_cf]
        @@ ("D&A" :> da)

\* lines 464-517: one projected cash-flow row
CashFlowRow(self, projected_income, projected_balance, latest_year, year_offset) ==
    LET year_str == Str(latest_year + year_offset)
        prev_year_str == Str(latest_year + year_offset - 1)
        net_income == projected_income.at[year_str]["NetIncome"]
        da == AbsQ(projected_income.at[year_str]["D&A"])
        prev_current_assets ==
            IF year_offset = 1
            THEN self.balance_sheet.at[Str(latest_year)]["CurrentAssets"]
            ELSE projected_balance.at[prev_year_str]["CurrentAssets"]
        prev_st_liabilities ==
            IF year_offset = 1
            THEN self.balance_sheet.at[Str(latest_year)]["ShortTermLiabilities"]
            ELSE projected_balance.at[prev_year_str]["ShortTermLiabilities"]
        curr_current_assets == projected_balance.at[year_str]["CurrentAssets"]
        curr_st_liabilities == projected_balance.at[year_str]["ShortTermLiabilities"]
        change_ca == Sub(prev_current_assets, curr_current_assets)
        change_cl == Sub(curr_st_liabilities, prev_st_liabilities)
        change_wc == Add(change_ca, change_cl)
        cfo == Add(Add(net_income, da), change_wc)
        revenue == projected_income.at[year_str]["Revenue"]
        capex == Mul(Neg(revenue), CapexOfRevenue)
        investing_cf == capex
        financing_cf == Z(0)
        net_cf == Add(Add(cfo, investing_cf), financing_cf)
    IN  [NetIncome |-> net_income, ChangeInWorkingCapital |-> change_wc,
         ChangeInCurrentAssets |-> change_ca,
         ChangeInCurrentLiabilities |-> change_cl,
         OperatingCashFlow |-> cfo, CapitalExpenditures |-> capex,
         InvestingCashFlow |-> investing_cf, FinancingCashFlow |-> financing_cf,
         NetCashFlow |-> net_cf]
        @@ ("D&A" :> da)

\* The loop body reads, in this order: projected_income (KeyError when it is
\* empty), self.balance_sheet (AttributeError when it is None, KeyError when the
\* latest year or the column is missing), projected_balance.
ProjectCashFlow(self, projected_income, projected_balance) ==
    LET cf == self.cash_flow
        bs == self.balance_sheet
        latest == GetLatestYear(self)
        n == self.projection_years
    IN  IF cf.none \/ Empty(cf)
        THEN [self |-> self, ret |-> EmptyDF, exc |-> "none"]
        ELSE IF latest = "None"
        THEN [self |-> self, ret |-> EmptyDF, exc |-> "none"]
        ELSE IF n = 0
        THEN [self |-> self, ret |-> EmptyDF, exc |-> "none"]
        ELSE IF ~InIndex(projected_income, Str(IntOf(latest) + 1))
        THEN [self |-> self, ret |-> EmptyDF, exc |-> "KeyError"]
        ELSE IF bs.none
        THEN [self |-> self, ret |-> EmptyDF, exc |-> "AttributeError"]
        ELSE IF \/ ~InIndex(bs, latest)
                \/ "CurrentAssets" \notin bs.columns
                \/ "ShortTermLiabilities" \notin bs.columns
        THEN [self |-> self, ret |-> EmptyDF, exc |-> "KeyError"]
        ELSE IF ~InIndex(projected_balance, Str(IntOf(latest) + 1))
        THEN [self |-> self, ret |-> EmptyDF, exc |-> "KeyError"]
        ELSE [self |-> self,
              ret |-> ProjectionFrame(IntOf(latest), n,
                        [t \in 1 .. n |-> CashFlowRow(self, projected_income,
                                               projected_balance, IntOf(latest), t)]),
              exc |-> "none"]

(***************************************************************************)
(* OperatingModel.build_model, lines 553-606: combine and serialise        *)
(***************************************************************************)
\* A statement as a Python dict year -> line item -> value:
\*   [kind, keys, items, cell]
\* kind "missing": no such key (or None); "empty": {}; "scalars": the years map
\* to bare numbers; "table": keys in insertion order, cell[key][item].
MissingDict == [kind |-> "missing", keys |-> <<>>, items |-> {}, cell |-> <<>>]
EmptyDict == [kind |-> "empty", keys |-> <<>>, items |-> {}, cell |-> <<>>]

\* pd.concat([a, b]): rows of a then rows of b, the union of the columns, NaN in
\* the cells a frame does not have; a None operand is dropped.
Concat(a, b) ==
    IF a.none THEN b
    ELSE [none |-> FALSE,
          index |-> a.index \o b.index,
          columns |-> a.columns \cup b.columns,
          at |-> [r \in SeqToSet(a.index) \cup SeqToSet(b.index) |->
                    [k \in a.columns \cup b.columns |->
                       IF InIndex(a, r)
                       THEN (IF k \in a.columns THEN a.at[r][k] ELSE NaN)
                       ELSE (IF k \in b.columns THEN b.at[r][k] ELSE NaN)]]]

\* df.index.is_unique; df.to_dict('index') raises ValueError ("DataFrame index
\* must be unique for orient='index'") when it is not
UniqueIndex(df) == Cardinality(SeqToSet(df.index)) = Len(df.index)

\* variant of convert_to_serializable that passes NaN and inf through
SerializableAsIs(v) == v

\* convert_to_serializable of one value
Serializable(v) == IF IsNaN(v) THEN Z(0) ELSE v

\* convert_to_serializable(df.to_dict('index'))
ConvertToSerializable(df) ==
    [kind |-> IF Len(df.index) = 0 THEN "empty" ELSE "table",
     keys |-> df.index,
     items |-> IF Len(df.index) = 0 THEN {} ELSE df.columns,
     cell |-> [r \in SeqToSet(df.index) |->
                 [k \in df.columns |-> Serializable(df.at[r][k])]]]

\* What build_model returns: error = "" stands for a record without 'error' key.
ErrorResult(msg) ==
    [error |-> msg, income_statement |-> MissingDict, balance_sheet |-> MissingDict,
     cash_flow |-> MissingDict, latest_year |-> NoneInt, projection_years |-> NoneInt]

CombineStatements(self, projected_income, projected_balance, projected_cashflow) ==
    LET latest == GetLatestYear(self)
    IN  IF latest = "None"
        THEN [self |-> self,
              ret |-> ErrorResult("Could not determine latest year from historical data"),
              exc |-> "none"]
        ELSE IF self.cash_flow.none
        THEN [self |-> self, ret |-> ErrorResult(""), exc |-> "AttributeError"]
        ELSE IF \/ ~UniqueIndex(Concat(self.income_statement, projected_income))
                \/ ~UniqueIndex(Concat(self.balance_sheet, projected_balance))
                \/ /\ ~Empty(self.cash_flow)
                   /\ ~UniqueIndex(Concat(self.cash_flow, projected_cashflow))
        THEN [self |-> self, ret |-> ErrorResult(""), exc |-> "ValueError"]
        ELSE [self |-> self,
              ret |-> [error |-> "",
                       income_statement |->
                           ConvertToSerializable(
                               Concat(self.income_statement, projected_income)),
                       balance_sheet |->
                           ConvertToSerializable(
                               Concat(self.balance_sheet, projected_balance)),
                       cash_flow |->
                           ConvertToSerializable(
                               IF ~Empty(self.cash_flow)
                               THEN Concat(self.cash_flow, projected_cashflow)
                               ELSE projected_cashflow),
                       latest_year |-> Given(IntOf(latest)),
                       projection_years |-> Given(self.projection_years)],
              exc |-> "none"]

(***************************************************************************)
(* DCFCalculator                                                           *)
(***************************************************************************)
\* dict.get(key, default) of an assumption
GetOr(arg, default) == IF arg.given THEN arg.v ELSE default

DefaultRiskFreeRate == Q(3, 100)
DefaultBeta == Z(1)
DefaultMarketRiskPremium == Q(6, 100)
DefaultCostOfDebt == Q(5, 100)
DefaultTaxRate == Q(25, 100)
DefaultDebtToEquity == Q(3, 10)
DefaultTerminalGrowth == Q(3, 100)
DefaultLatestYear == 2023
DefaultProjectionYears == 5
TerminalMultiple == 10

\* pd.Series: [none, keys, val]; keys are the integer years in insertion order
NoneSeries == [none |-> TRUE, keys |-> <<>>, val |-> <<>>]
EmptySeries == [none |-> FALSE, keys |-> <<>>, val |-> <<>>]

\* DCFCalculator.__init__
NewDCFCalculator(operating_model_data, assumptions) ==
    [operating_model_data |-> operating_model_data,
     assumptions |-> assumptions,
     wacc |-> NoneArg,
     free_cash_flows |-> NoneSeries,
     terminal_value |-> NoneArg,
     enterprise_value |-> NoneArg,
     equity_value |-> NoneArg]

\* pd.DataFrame(d) of a dict of dicts, without transposition: the outer keys are
\* the columns and the inner keys are the index.
DcfFrame(d) ==
    [index |-> d.items,
     columns |-> SeqToSet(d.keys),
     at |-> [r \in d.items |-> [c \in SeqToSet(d.keys) |-> d.cell[c][r]]]]

DcfEmpty(f) == f.index = {} \/ f.columns = {}

\* variant of line 55 that leaves out the tax shield on the cost of debt
CalculateWaccNoTaxShield(self) ==
    LET a == self.assumptions
        risk_free_rate == GetOr(a.risk_free_rate, DefaultRiskFreeRate)
        beta == GetOr(a.beta, DefaultBeta)
        market_risk_premium == GetOr(a.market_risk_premium, DefaultMarketRiskPremium)
        cost_of_debt == GetOr(a.cost_of_debt, DefaultCostOfDebt)
        debt_to_equity == GetOr(a.debt_to_equity, DefaultDebtToEquity)
        cost_of_equity == Add(risk_free_rate, Mul(beta, market_risk_premium))
        debt_weight == Div(debt_to_equity, Add(Z(1), debt_to_equity))
        equity_weight == Div(Z(1), Add(Z(1), debt_to_equity))
        wacc == Add(Mul(equity_weight, cost_of_equity), Mul(debt_weight, cost_of_debt))
    IN  IF IsZero(Add(Z(1), debt_to_equity))
        THEN [self |-> self, ret |-> NaN, exc |-> "ZeroDivisionError"]
        ELSE [self |-> [self EXCEPT !.wacc = Given(wacc)], ret |-> wacc,
              exc |-> "none"]

CalculateWacc(self) ==
    LET a == self.assumptions
        risk_free_rate == GetOr(a.risk_free_rate, DefaultRiskFreeRate)
        beta == GetOr(a.beta, DefaultBeta)
        market_risk_premium == GetOr(a.market_risk_premium, DefaultMarketRiskPremium)
        cost_of_debt == GetOr(a.cost_of_debt, DefaultCostOfDebt)
        tax_rate == GetOr(a.tax_rate, DefaultTaxRate)
        debt_to_equity == GetOr(a.debt_to_equity, DefaultDebtToEquity)
        cost_of_equity == Add(risk_free_rate, Mul(beta, market_risk_premium))
        debt_weight == Div(debt_to_equity, Add(Z(1), debt_to_equity))
        equity_weight == Div(Z(1), Add(Z(1), debt_to_equity))
        wacc == Add(Mul(equity_weight, cost_of_equity),
                    Mul(Mul(debt_weight, cost_of_debt), Sub(Z(1), tax_rate)))
    IN  IF IsZero(Add(Z(1), debt_to_equity))
        THEN [self |-> self, ret |-> NaN, exc |-> "ZeroDivisionError"]
        ELSE [self |-> [self EXCEPT !.wacc = Given(wacc)], ret |-> wacc,
              exc |-> "none"]

\* lines 80-110, one year: [fcf, exc]
FcfOfYear(self, cash_flow, income_statement, latest_year, year_offset) ==
    LET year_str == Str(latest_year + year_offset)
        in_cf == year_str \in cash_flow.index
        operating_cf == IF in_cf THEN cash_flow.at[year_str]["OperatingCashFlow"]
                        ELSE Z(0)
        capex == IF in_cf THEN AbsQ(cash_flow.at[year_str]["CapitalExpenditures"])
                 ELSE Z(0)
        fcf == Sub(operating_cf, capex)
        ebit == IF "OperatingIncome" \in income_statement.columns
                THEN income_statement.at[year_str]["OperatingIncome"] ELSE Z(0)
        da == IF "D&A" \in income_statement.columns
              THEN AbsQ(income_statement.at[year_str]["D&A"]) ELSE Z(0)
        tax_rate == GetOr(self.assumptions.tax_rate, DefaultTaxRate)
        nopat == Mul(ebit, Sub(Z(1), tax_rate))
        wc_there == IF year_offset = 1
                    THEN "ChangeInWorkingCapital" \in cash_flow.columns
                    ELSE in_cf /\ "ChangeInWorkingCapital" \in cash_flow.columns
        change_wc == IF wc_there
                     THEN cash_flow.at[year_str]["ChangeInWorkingCapital"]
                     ELSE Z(0)
    IN  IF in_cf /\ ("OperatingCashFlow" \notin cash_flow.columns
                     \/ "CapitalExpenditures" \notin cash_flow.columns)
        THEN [fcf |-> NaN, exc |-> "KeyError"]
        ELSE IF IsZero(fcf) /\ year_str \in income_statement.index
        THEN IF wc_there /\ ~in_cf
             THEN [fcf |-> NaN, exc |-> "KeyError"]
             ELSE [fcf |-> Sub(Sub(Add(nopat, da), capex), change_wc),
                   exc |-> "none"]
        ELSE [fcf |-> fcf, exc |-> "none"]

\* variant of line 80 with range(1, projection_years)
YearOffsetsExclusive(projection_years) == 1 .. projection_years - 1

\* range(1, projection_years + 1)
YearOffsets(projection_years) == 1 .. projection_years

CalculateFreeCashFlow(self) ==
    LET omd == self.operating_model_data
        cash_flow == DcfFrame(omd.cash_flow)
        income_statement == DcfFrame(omd.income_statement)
        latest_year == GetOr(omd.latest_year, DefaultLatestYear)
        projection_years == GetOr(omd.projection_years, DefaultProjectionYears)
        offs == YearOffsets(projection_years)
        one(t) == FcfOfYear(self, cash_flow, income_statement, latest_year, t)
        n == Cardinality(offs)
        series == [none |-> FALSE,
                   keys |-> [i \in 1 .. n |-> latest_year + i],
                   val |-> [y \in {latest_year + t : t \in offs} |->
                              one(y - latest_year).fcf]]
    IN  IF DcfEmpty(cash_flow) \/ DcfEmpty(income_statement)
        THEN [self |-> self, ret |-> EmptySeries, exc |-> "none"]
        ELSE IF \E t \in offs : one(t).exc # "none"
        THEN [self |-> self, ret |-> EmptySeries, exc |-> "KeyError"]
        ELSE [self |-> [self EXCEPT !.free_cash_flows = series],
              ret |-> series, exc |-> "none"]

SeriesEmpty(s) == Len(s.keys) = 0

\* variant of line 134 with "wacc >= terminal_growth"
TerminalValueGordonAtEquality(final_fcf, wacc, terminal_growth) ==
    IF ~Lt(wacc, terminal_growth)
    THEN Div(Mul(final_fcf, Add(Z(1), terminal_growth)), Sub(wacc, terminal_growth))
    ELSE Mul(final_fcf, Z(10))

\* line 134-138
TerminalValueOf(final_fcf, wacc, terminal_growth) ==
    IF Gt(wacc, terminal_growth)
    THEN Div(Mul(final_fcf, Add(Z(1), terminal_growth)), Sub(wacc, terminal_growth))
    ELSE Mul(final_fcf, Z(TerminalMultiple))

\* "if self.free_cash_flows is None or self.free_cash_flows.empty:
\*      self.calculate_free_cash_flow()"
EnsureFreeCashFlows(self) ==
    IF self.free_cash_flows.none \/ SeriesEmpty(self.free_cash_flows)
    THEN CalculateFreeCashFlow(self)
    ELSE [self |-> self, ret |-> self.free_cash_flows, exc |-> "none"]

\* "if self.wacc is None: self.calculate_wacc()", after the step that gave r
EnsureWacc(r) ==
    IF r.exc # "none" THEN [self |-> r.self, ret |-> NaN, exc |-> r.exc]
    ELSE IF r.self.wacc.given
    THEN [self |-> r.self, ret |-> r.self.wacc.v, exc |-> "none"]
    ELSE CalculateWacc(r.self)

\* lines 128-141, after the two lazy steps gave r
TerminalValueStep(r) ==
    LET terminal_growth == GetOr(r.self.assumptions.terminal_growth_rate,
                                 DefaultTerminalGrowth)
        fcfs == r.self.free_cash_flows
        tv == TerminalValueOf(fcfs.val[fcfs.keys[Len(fcfs.keys)]], r.self.wacc.v,
                              terminal_growth)
    IN  IF r.exc # "none" THEN [self |-> r.self, ret |-> NaN, exc |-> r.exc]
        ELSE IF fcfs.none
        THEN [self |-> r.self, ret |-> NaN, exc |-> "AttributeError"]
        ELSE IF SeriesEmpty(fcfs)
        THEN [self |-> r.self, ret |-> NaN, exc |-> "IndexError"]
        ELSE [self |-> [r.self EXCEPT !.terminal_value = Given(tv)], ret |-> tv,
              exc |-> "none"]

CalculateTerminalValue(self) ==
    TerminalValueStep(EnsureWacc(EnsureFreeCashFlows(self)))

\* variant of lines 162 and 169 with simple in place of compound discounting
DiscountSimple(value, wacc, years) == Div(value, Add(Z(1), Mul(wacc, Z(years))))

\* line 162 and line 169: value / (1 + wacc) ** years
Discount(value, wacc, years) == Div(value, Pow(Add(Z(1), wacc), years))

\* lines 156-175 on an object whose free_cash_flows, wacc and terminal_value are set
PresentValuesOf(self) ==
    LET omd == self.operating_model_data
        latest_year == GetOr(omd.latest_year, DefaultLatestYear)
        projection_years == GetOr(omd.projection_years, DefaultProjectionYears)
        fcfs == self.free_cash_flows
        pv_fcf == [y \in SeqToSet(fcfs.keys) |->
                     Discount(fcfs.val[y], self.wacc.v, y - latest_year)]
    IN  [pv_fcf |-> [keys |-> fcfs.keys, val |-> pv_fcf],
         pv_terminal |-> Discount(self.terminal_value.v, self.wacc.v,
                                  projection_years),
         total_pv_fcf |-> SumSeq([i \in 1 .. Len(fcfs.keys) |-> pv_fcf[fcfs.keys[i]]])]

NoPresentValues ==
    [pv_fcf |-> [keys |-> <<>>, val |-> <<>>], pv_terminal |-> NaN,
     total_pv_fcf |-> NaN]

\* "if self.terminal_value is None: self.calculate_terminal_value()"
EnsureTerminalValue(r) ==
    IF r.exc # "none" THEN [self |-> r.self, ret |-> NaN, exc |-> r.exc]
    ELSE IF r.self.terminal_value.given
    THEN [self |-> r.self, ret |-> r.self.terminal_value.v, exc |-> "none"]
    ELSE CalculateTerminalValue(r.self)

PresentValuesStep(r) ==
    IF r.exc # "none"
    THEN [self |-> r.self, ret |-> NoPresentValues, exc |-> r.exc]
    ELSE IF r.self.free_cash_flows.none
    THEN [self |-> r.self, ret |-> NoPresentValues, exc |-> "AttributeError"]
    ELSE [self |-> r.self, ret |-> PresentValuesOf(r.self), exc |-> "none"]

CalculatePresentValues(self) ==
    PresentValuesStep(EnsureTerminalValue(EnsureWacc(EnsureFreeCashFlows(self))))

EnterpriseValueStep(r) ==
    IF r.exc # "none" THEN [self |-> r.self, ret |-> NaN, exc |-> r.exc]
    ELSE [self |-> [r.self EXCEPT !.enterprise_value =
                        Given(Add(r.ret.total_pv_fcf, r.ret.pv_terminal))],
          ret |-> Add(r.ret.total_pv_fcf, r.ret.pv_terminal), exc |-> "none"]

CalculateEnterpriseValue(self) == EnterpriseValueStep(CalculatePresentValues(self))

\* lines 202-220
NetDebt(self) ==
    LET omd == self.operating_model_data
        balance_sheet == DcfFrame(omd.balance_sheet)
        latest_year_str == Str(GetOr(omd.latest_year, DefaultLatestYear))
        item(c) == IF c \in balance_sheet.columns
                   THEN balance_sheet.at[latest_year_str][c] ELSE Z(0)
        total_debt == Add(item("LongTermDebt"), Z(0))
        total_cash == Add(item("Cash"), item("ShortTermInvestments"))
    IN  IF ~DcfEmpty(balance_sheet) /\ latest_year_str \in balance_sheet.index
        THEN Sub(total_debt, total_cash)
        ELSE Z(0)

\* "if self.enterprise_value is None: self.calculate_enterprise_value()"
EnsureEnterpriseValue(self) ==
    IF self.enterprise_value.given
    THEN [self |-> self, ret |-> self.enterprise_value.v, exc |-> "none"]
    ELSE CalculateEnterpriseValue(self)

\* variant of line 223 that nets the debt off the cached equity value when
\* there is one
EquityValueStepFromCached(r) ==
    IF r.exc # "none" THEN [self |-> r.self, ret |-> NaN, exc |-> r.exc]
    ELSE [self |-> [r.self EXCEPT !.equity_value =
                        Given(Sub(IF r.self.equity_value.given
                                  THEN r.self.equity_value.v
                                  ELSE r.self.enterprise_value.v,
                                  NetDebt(r.self)))],
          ret |-> Sub(IF r.self.equity_value.given
                      THEN r.self.equity_value.v
                      ELSE r.self.enterprise_value.v,
                      NetDebt(r.self)),
          exc |-> "none"]

EquityValueStep(r) ==
    IF r.exc # "none" THEN [self |-> r.self, ret |-> NaN, exc |-> r.exc]
    ELSE [self |-> [r.self EXCEPT !.equity_value =
                        Given(Sub(r.self.enterprise_value.v, NetDebt(r.self)))],
          ret |-> Sub(r.self.enterprise_value.v, NetDebt(r.self)), exc |-> "none"]

CalculateEquityValue(self) == EquityValueStep(EnsureEnterpriseValue(self))

\* variant of line 242 that divides whenever shares_outstanding is supplied
PricePerShareWheneverGiven(equity_value, shares_outstanding) ==
    IF shares_outstanding.given
    THEN Given(Div(equity_value, shares_outstanding.v))
    ELSE NoneArg

\* lines 241-242
PricePerShare(equity_value, shares_outstanding) ==
    IF shares_outstanding.given /\ ~IsZero(shares_outstanding.v)
    THEN Given(Div(equity_value, shares_outstanding.v))
    ELSE NoneArg

(***************************************************************************)
(* Inputs                                                                  *)
(***************************************************************************)
\* the largest projection_years a request asks for
MaxN == 2

\* the latest fiscal year of the sample histories
BaseYear == 2023

Table(keys, items, cell) ==
    [kind |-> "table", keys |-> keys, items |-> items, cell |-> cell]

ScalarsDict == [kind |-> "scalars", keys |-> <<"2022", "2023">>, items |-> {},
                cell |-> <<>>]

\* one raw income row; SEC data carries expenses as positive numbers
IncomeItems == {"Revenue", "COGS", "SG&A", "D&A", "InterestExpense", "TaxExpense"}

RawIncomeRow(revenue, cogs, da) ==
    [Revenue |-> revenue, COGS |-> cogs, InterestExpense |-> Z(5),
     TaxExpense |-> Neg(Z(3))]
    @@ ("SG&A" :> Z(20)) @@ ("D&A" :> da)

OlderRow == RawIncomeRow(Z(100), Z(60), Z(10))
LatestRow == RawIncomeRow(Z(200), Z(120), Z(10))
LatestRowZeroRevenue == RawIncomeRow(Z(0), Z(120), Z(0))
OlderRowZeroRevenue == RawIncomeRow(Z(0), Z(60), Z(10))
OlderRowNonNumeric == RawIncomeRow(NonNumeric, Z(60), NonNumeric)

IncomeTable(keys, older, latest) ==
    Table(keys, IncomeItems, (keys[1] :> older) @@ (keys[2] :> latest))

\* the same rows without the Revenue column
WithoutRevenue(row) == [k \in IncomeItems \ {"Revenue"} |-> row[k]]

Asc == <<Str(BaseYear - 1), Str(BaseYear)>>
Desc == <<Str(BaseYear), Str(BaseYear - 1)>>
Asc3 == <<Str(BaseYear - 2), Str(BaseYear - 1), Str(BaseYear)>>

\* raw rows that supply aggregates of their own, at odds with the formulas
AggregateItems == {"GrossProfit", "OperatingIncome", "EBITDA", "EBT", "NetIncome"}

SuppliedAggregates ==
    [GrossProfit |-> Z(77), OperatingIncome |-> Z(33), EBITDA |-> NonNumeric,
     EBT |-> Neg(Z(4)), NetIncome |-> Z(1)]

\* every aggregate supplied, next to an InterestIncome reported as negative
IncomeTableAllSupplied ==
    Table(Asc, IncomeItems \cup AggregateItems \cup {"InterestIncome"},
          (Asc[1] :> (OlderRow @@ SuppliedAggregates @@ [InterestIncome |-> Neg(Z(2))]))
          @@
          (Asc[2] :> (LatestRow @@ SuppliedAggregates @@ [InterestIncome |-> Z(2)])))

\* only OperatingIncome supplied, with the remaining expense items
IncomeTableOperatingIncomeSupplied ==
    Table(Asc, IncomeItems \cup {"OperatingIncome", "OtherOperatingExpenses",
                                 "OtherUnusualItems"},
          (Asc[1] :> (OlderRow @@ [OperatingIncome |-> Z(33),
                                   OtherOperatingExpenses |-> Z(2),
                                   OtherUnusualItems |-> Neg(Z(1))]))
          @@
          (Asc[2] :> (LatestRow @@ [OperatingIncome |-> Z(44),
                                    OtherOperatingExpenses |-> NaN,
                                    OtherUnusualItems |-> Z(1)])))

\* three years of history: revenue 100, 0, 200 and revenue 100, 200, 300
IncomeTable3(r1, r2, r3) ==
    Table(Asc3, IncomeItems,
          (Asc3[1] :> RawIncomeRow(r1, Z(60), Z(10))) @@
          (Asc3[2] :> RawIncomeRow(r2, Z(60), Z(10))) @@
          (Asc3[3] :> RawIncomeRow(r3, Z(120), Z(10))))

IncomeInputs ==
    { MissingDict, EmptyDict, ScalarsDict,
      IncomeTable(Asc, OlderRow, LatestRow),
      IncomeTable(Asc, OlderRow, LatestRowZeroRevenue),
      IncomeTable(Asc, OlderRowZeroRevenue, LatestRowZeroRevenue),
      IncomeTable(Asc, OlderRowNonNumeric, LatestRow),
      Table(Asc, IncomeItems \ {"Revenue"},
            (Asc[1] :> WithoutRevenue(OlderRow)) @@ (Asc[2] :> WithoutRevenue(LatestRow))),
      IncomeTable(Desc, LatestRow, OlderRow),
      IncomeTable(Desc, LatestRowZeroRevenue, OlderRow),
      IncomeTable(<<DateLabel(BaseYear - 1), DateLabel(BaseYear)>>, OlderRow, LatestRow),
      IncomeTable(<<DateLabel(BaseYear - 1), Str(BaseYear)>>, OlderRow, LatestRow),
      IncomeTable(<<"FY2022", "FY-END">>, OlderRow, LatestRow),
      IncomeTableAllSupplied,
      IncomeTableOperatingIncomeSupplied,
      IncomeTable3(Z(100), Z(0), Z(200)),
      IncomeTable3(Z(100), Z(200), Z(300)),
      \* gross margins of 19/20, of -1/2 and without any COGS
      IncomeTable(Asc, RawIncomeRow(Z(100), Z(5), Z(10)),
                       RawIncomeRow(Z(200), Z(10), Z(10))),
      IncomeTable(Asc, RawIncomeRow(Z(100), Z(150), Z(10)),
                       RawIncomeRow(Z(200), Z(300), Z(10))),
      IncomeTable(Asc, RawIncomeRow(Z(100), Z(0), Z(10)),
                       RawIncomeRow(Z(200), Z(0), Z(10))),
      \* a latest year with negative revenue
      IncomeTable(Asc, OlderRow, RawIncomeRow(Neg(Z(50)), Z(120), Z(10))) }

BalanceItems ==
    {"Cash", "ShortTermInvestments", "CurrentAssets", "PPE", "OtherLongTermAssets",
     "ShortTermLiabilities", "LongTermDebt", "RetainedEarnings", "CommonStock"}

RawBalanceRow(current_assets, st_liabilities) ==
    [Cash |-> Z(30), ShortTermInvestments |-> Z(10),
     CurrentAssets |-> current_assets, PPE |-> Z(300),
     OtherLongTermAssets |-> Z(50), ShortTermLiabilities |-> st_liabilities,
     LongTermDebt |-> Z(90), RetainedEarnings |-> Z(40), CommonStock |-> Z(5)]

BalanceInputs ==
    { MissingDict, EmptyDict, ScalarsDict,
      Table(Asc, BalanceItems,
            (Asc[1] :> RawBalanceRow(Z(70), Z(50))) @@
            (Asc[2] :> RawBalanceRow(Z(80), Z(60)))),
      Table(<<Asc[1]>>, BalanceItems, (Asc[1] :> RawBalanceRow(Z(70), Z(50)))),
      \* a balance sheet one year ahead of the income statement
      Table(<<Asc[2], Str(BaseYear + 1)>>, BalanceItems,
            (Asc[2] :> RawBalanceRow(Z(80), Z(60))) @@
            (Str(BaseYear + 1) :> RawBalanceRow(Z(90), Z(70)))),
      Table(<<Asc[2]>>, BalanceItems \ {"CurrentAssets"},
            (Asc[2] :> [k \in BalanceItems \ {"CurrentAssets"} |->
                          RawBalanceRow(Z(80), Z(60))[k]])) }

CashFlowItems == {"OperatingCashFlow", "CapitalExpenditures"}

CashFlowInputs ==
    { MissingDict, EmptyDict,
      Table(Asc, CashFlowItems,
            (Asc[1] :> [OperatingCashFlow |-> Z(25), CapitalExpenditures |-> Neg(Z(8))])
            @@
            (Asc[2] :> [OperatingCashFlow |-> Z(35), CapitalExpenditures |-> NonNumeric])) }

\* request.get_json()['assumptions']
Assumptions(rg, gm, sga, tax, n, rf, beta, mrp, cod, de, tg, shares) ==
    [revenue_growth |-> rg, gross_margin |-> gm, sga_percent |-> sga,
     tax_rate |-> tax, projection_years |-> n, risk_free_rate |-> rf,
     beta |-> beta, market_risk_premium |-> mrp, cost_of_debt |-> cod,
     debt_to_equity |-> de, terminal_growth_rate |-> tg,
     shares_outstanding |-> shares]

\* WACC 1/10 > g; WACC 3/40 = g; WACC 1/10 < g
DcfProfiles ==
    { [rf |-> Given(Q(1, 20)), beta |-> NoneArg, mrp |-> Given(Q(1, 20)),
       cod |-> NoneArg, de |-> Given(Z(0)), tg |-> Given(Q(1, 50)),
       tax |-> NoneArg, shares |-> Given(Z(10))],
      [rf |-> Given(Q(1, 20)), beta |-> Given(Z(1)), mrp |-> Given(Q(1, 20)),
       cod |-> Given(Q(1, 10)), de |-> Given(Z(1)), tg |-> Given(Q(3, 40)),
       tax |-> Given(Q(1, 2)), shares |-> NoneArg],
      [rf |-> Given(Q(1, 20)), beta |-> Given(Z(1)), mrp |-> Given(Q(1, 20)),
       cod |-> NoneArg, de |-> Given(Z(0)), tg |-> Given(Q(1, 5)),
       tax |-> Given(Q(1, 2)), shares |-> Given(Z(0))] }

\* the last profile asks for a gross margin above 1
OperatingProfiles ==
    { [rg |-> NoneArg, gm |-> NoneArg, sga |-> NoneArg],
      [rg |-> Given(Q(1, 2)), gm |-> Given(Q(1, 2)), sga |-> Given(Q(1, 4))],
      [rg |-> NoneArg, gm |-> Given(Q(3, 2)), sga |-> NoneArg] }

AssumptionInputs ==
    { Assumptions(o.rg, o.gm, o.sga, d.tax, Given(n), d.rf, d.beta, d.mrp, d.cod,
                  d.de, d.tg, d.shares) :
        o \in OperatingProfiles, d \in DcfProfiles, n \in 1 .. MaxN }

CompanyDataInputs ==
    { [given |-> g, income_statement |-> i, balance_sheet |-> b, cash_flow |-> c] :
        g \in {TRUE}, i \in IncomeInputs, b \in BalanceInputs, c \in CashFlowInputs }
    \cup
    { [given |-> FALSE, income_statement |-> MissingDict,
       balance_sheet |-> MissingDict, cash_flow |-> MissingDict] }

(***************************************************************************)
(* State                                                                   *)
(***************************************************************************)
VARIABLES
    pc,                   \* the position of the running call
    company_data,         \* request: the historical statements
    assumptions,          \* request: the assumptions record
    om,                   \* the OperatingModel object
    projected_income,     \* build_model's local
    projected_balance,    \* build_model's local
    projected_cashflow,   \* build_model's local
    operating_model_data, \* what build_model returned
    dcf,                  \* the DCFCalculator object
    locals,               \* calculate_all's locals
    dcf_results,          \* what calculate_all returned
    exc,                  \* the exception that escaped, [name, from]
    response              \* the HTTP status the handler answered with (0: none yet)

vars == <<pc, company_data, assumptions, om, projected_income, projected_balance,
          projected_cashflow, operating_model_data, dcf, locals, dcf_results, exc,
          response>>

NoException == [name |-> "none", from |-> "none"]

\* OperatingModel.__init__
NewOperatingModel(historical_data, projection_years) ==
    [historical_data |-> historical_data,
     projection_years |-> projection_years,
     income_statement |-> NoneDF,
     balance_sheet |-> NoneDF,
     cash_flow |-> NoneDF]

NoObject == [created |-> FALSE]

NoLocals ==
    [wacc |-> NaN, fcf |-> NoneSeries, terminal_value |-> NaN,
     enterprise_value |-> NaN, equity_value |-> NaN, pv_data |-> NoPresentValues]

NoResults == [returned |-> FALSE]

NoModelData == ErrorResult("not built")

Init ==
    /\ pc = "calculate_dcf"
    /\ company_data \in CompanyDataInputs
    /\ assumptions \in AssumptionInputs
    /\ om = NoObject
    /\ projected_income = NoneDF
    /\ projected_balance = NoneDF
    /\ projected_cashflow = NoneDF
    /\ operating_model_data = NoModelData
    /\ dcf = NoObject
    /\ locals = NoLocals
    /\ dcf_results = NoResults
    /\ exc = NoException
    /\ response = 0

(***************************************************************************)
(* app.calculate_dcf                                                       *)
(***************************************************************************)
\* lines 72-86: the request is refused before any model is built
RejectRequest ==
    /\ pc = "calculate_dcf"
    /\ \/ ~company_data.given
       \/ /\ ~Truthy(company_data.income_statement)
          /\ ~Truthy(company_data.balance_sheet)
    /\ response' = 400
    /\ pc' = "done"
    /\ UNCHANGED <<company_data, assumptions, om, projected_income,
                   projected_balance, projected_cashflow, operating_model_data,
                   dcf, locals, dcf_results, exc>>

\* lines 88-90: OperatingModel(company_data, projection_years)
AcceptRequest ==
    /\ pc = "calculate_dcf"
    /\ company_data.given
    /\ Truthy(company_data.income_statement) \/ Truthy(company_data.balance_sheet)
    /\ om' = NewOperatingModel(company_data,
                               GetOr(assumptions.projection_years,
                                     DefaultProjectionYears))
    /\ pc' = "prepare_historical_data"
    /\ UNCHANGED <<company_data, assumptions, projected_income, projected_balance,
                   projected_cashflow, operating_model_data, dcf, locals,
                   dcf_results, exc, response>>

\* an exception leaves the running call: build_model or calculate_all is over
Raise(name, from) ==
    /\ exc' = [name |-> name, from |-> from]
    /\ pc' = "except"

(***************************************************************************)
(* OperatingModel.build_model, one action per statement of its body        *)
(***************************************************************************)
\* lines 531-532
BuildPrepare ==
    /\ pc = "prepare_historical_data"
    /\ LET r == PrepareHistoricalData(om)
       IN  /\ om' = r.self
           /\ IF r.ret
              THEN /\ pc' = "project_income_statement"
                   /\ UNCHANGED operating_model_data
              ELSE /\ pc' = "build_model_returned"
                   /\ operating_model_data' =
                          ErrorResult("Failed to prepare historical data")
    /\ UNCHANGED <<company_data, assumptions, projected_income, projected_balance,
                   projected_cashflow, dcf, locals, dcf_results, exc, response>>

\* lines 535-545
BuildProjectIncome ==
    /\ pc = "project_income_statement"
    /\ LET r == ProjectIncomeStatement(om, assumptions.revenue_growth,
                                       assumptions.gross_margin,
                                       assumptions.sga_percent,
                                       GetOr(assumptions.tax_rate, DefaultTaxRate))
       IN  IF r.exc # "none"
           THEN Raise(r.exc, "build_model") /\ UNCHANGED projected_income
           ELSE /\ projected_income' = r.ret
                /\ pc' = "project_balance_sheet"
                /\ UNCHANGED exc
    /\ UNCHANGED <<company_data, assumptions, om, projected_balance,
                   projected_cashflow, operating_model_data, dcf, locals,
                   dcf_results, response>>

\* line 548
BuildProjectBalance ==
    /\ pc = "project_balance_sheet"
    /\ LET r == ProjectBalanceSheet(om, projected_income)
       IN  IF r.exc # "none"
           THEN Raise(r.exc, "build_model") /\ UNCHANGED projected_balance
           ELSE /\ projected_balance' = r.ret
                /\ pc' = "project_cash_flow"
                /\ UNCHANGED exc
    /\ UNCHANGED <<company_data, assumptions, om, projected_income,
                   projected_cashflow, operating_model_data, dcf, locals,
                   dcf_results, response>>

\* line 551
BuildProjectCashFlow ==
    /\ pc = "project_cash_flow"
    /\ LET r == ProjectCashFlow(om, projected_income, projected_balance)
       IN  IF r.exc # "none"
           THEN Raise(r.exc, "build_model") /\ UNCHANGED projected_cashflow
           ELSE /\ projected_cashflow' = r.ret
                /\ pc' = "combine"
                /\ UNCHANGED exc
    /\ UNCHANGED <<company_data, assumptions, om, projected_income,
                   projected_balance, operating_model_data, dcf, locals,
                   dcf_results, response>>

\* lines 553-606
BuildCombine ==
    /\ pc = "combine"
    /\ LET r == CombineStatements(om, projected_income, projected_balance,
                                  projected_cashflow)
       IN  IF r.exc # "none"
           THEN Raise(r.exc, "build_model") /\ UNCHANGED operating_model_data
           ELSE /\ operating_model_data' = r.ret
                /\ pc' = "build_model_returned"
                /\ UNCHANGED exc
    /\ UNCHANGED <<company_data, assumptions, om, projected_income,
                   projected_balance, projected_cashflow, dcf, locals,
                   dcf_results, response>>

\* app.py lines 118-119
AnswerModelError ==
    /\ pc = "build_model_returned"
    /\ operating_model_data.error # ""
    /\ response' = 400
    /\ pc' = "done"
    /\ UNCHANGED <<company_data, assumptions, om, projected_income,
                   projected_balance, projected_cashflow, operating_model_data,
                   dcf, locals, dcf_results, exc>>

\* variant of app.py lines 118-122 without the test for an 'error' key
CreateCalculatorUnguarded ==
    /\ pc = "build_model_returned"
    /\ dcf' = NewDCFCalculator(operating_model_data, assumptions)
    /\ pc' = "calculate_wacc"
    /\ UNCHANGED <<company_data, assumptions, om, projected_income,
                   projected_balance, projected_cashflow, operating_model_data,
                   locals, dcf_results, exc, response>>

\* app.py line 122
CreateCalculator ==
    /\ pc = "build_model_returned"
    /\ operating_model_data.error = ""
    /\ dcf' = NewDCFCalculator(operating_model_data, assumptions)
    /\ pc' = "calculate_wacc"
    /\ UNCHANGED <<company_data, assumptions, om, projected_income,
                   projected_balance, projected_cashflow, operating_model_data,
                   locals, dcf_results, exc, response>>

(***************************************************************************)
(* DCFCalculator.calculate_all, one action per statement of its body       *)
(***************************************************************************)
\* line 232
AllWacc ==
    /\ pc = "calculate_wacc"
    /\ LET r == CalculateWacc(dcf)
       IN  IF r.exc # "none"
           THEN Raise(r.exc, "calculate_all") /\ UNCHANGED <<dcf, locals>>
           ELSE /\ dcf' = r.self
                /\ locals' = [locals EXCEPT !.wacc = r.ret]
                /\ pc' = "calculate_free_cash_flow"
                /\ UNCHANGED exc
    /\ UNCHANGED <<company_data, assumptions, om, projected_income,
                   projected_balance, projected_cashflow, operating_model_data,
                   dcf_results, response>>

\* line 233
AllFreeCashFlow ==
    /\ pc = "calculate_free_cash_flow"
    /\ LET r == CalculateFreeCashFlow(dcf)
       IN  IF r.exc # "none"
           THEN Raise(r.exc, "calculate_all") /\ UNCHANGED <<dcf, locals>>
           ELSE /\ dcf' = r.self
                /\ locals' = [locals EXCEPT !.fcf = r.ret]
                /\ pc' = "calculate_terminal_value"
                /\ UNCHANGED exc
    /\ UNCHANGED <<company_data, assumptions, om, projected_income,
                   projected_balance, projected_cashflow, operating_model_data,
                   dcf_results, response>>

\* line 234
AllTerminalValue ==
    /\ pc = "calculate_terminal_value"
    /\ LET r == CalculateTerminalValue(dcf)
       IN  IF r.exc # "none"
           THEN Raise(r.exc, "calculate_all") /\ dcf' = r.self /\ UNCHANGED locals
           ELSE /\ dcf' = r.self
                /\ locals' = [locals EXCEPT !.terminal_value = r.ret]
                /\ pc' = "calculate_enterprise_value"
                /\ UNCHANGED exc
    /\ UNCHANGED <<company_data, assumptions, om, projected_income,
                   projected_balance, projected_cashflow, operating_model_data,
                   dcf_results, response>>

\* line 235
AllEnterpriseValue ==
    /\ pc = "calculate_enterprise_value"
    /\ LET r == CalculateEnterpriseValue(dcf)
       IN  IF r.exc # "none"
           THEN Raise(r.exc, "calculate_all") /\ dcf' = r.self /\ UNCHANGED locals
           ELSE /\ dcf' = r.self
                /\ locals' = [locals EXCEPT !.enterprise_value = r.ret]
                /\ pc' = "calculate_equity_value"
                /\ UNCHANGED exc
    /\ UNCHANGED <<company_data, assumptions, om, projected_income,
                   projected_balance, projected_cashflow, operating_model_data,
                   dcf_results, response>>

\* line 236
AllEquityValue ==
    /\ pc = "calculate_equity_value"
    /\ LET r == CalculateEquityValue(dcf)
       IN  IF r.exc # "none"
           THEN Raise(r.exc, "calculate_all") /\ dcf' = r.self /\ UNCHANGED locals
           ELSE /\ dcf' = r.self
                /\ locals' = [locals EXCEPT !.equity_value = r.ret]
                /\ pc' = "calculate_present_values"
                /\ UNCHANGED exc
    /\ UNCHANGED <<company_data, assumptions, om, projected_income,
                   projected_balance, projected_cashflow, operating_model_data,
                   dcf_results, response>>

\* line 237
AllPresentValues ==
    /\ pc = "calculate_present_values"
    /\ LET r == CalculatePresentValues(dcf)
       IN  IF r.exc # "none"
           THEN Raise(r.exc, "calculate_all") /\ dcf' = r.self /\ UNCHANGED locals
           ELSE /\ dcf' = r.self
                /\ locals' = [locals EXCEPT !.pv_data = r.ret]
                /\ pc' = "return_summary"
                /\ UNCHANGED exc
    /\ UNCHANGED <<company_data, assumptions, om, projected_income,
                   projected_balance, projected_cashflow, operating_model_data,
                   dcf_results, response>>

\* lines 241-263
AllReturn ==
    /\ pc = "return_summary"
    /\ dcf_results' =
           [returned |-> TRUE,
            wacc |-> locals.wacc,
            free_cash_flows |-> [keys |-> locals.fcf.keys, val |-> locals.fcf.val],
            terminal_value |-> locals.terminal_value,
            present_value_fcf |-> locals.pv_data.pv_fcf,
            present_value_terminal |-> locals.pv_data.pv_terminal,
            total_pv_fcf |-> locals.pv_data.total_pv_fcf,
            enterprise_value |-> locals.enterprise_value,
            equity_value |-> locals.equity_value,
            price_per_share |-> PricePerShare(locals.equity_value,
                                              dcf.assumptions.shares_outstanding)]
    /\ pc' = "calculate_all_returned"
    /\ UNCHANGED <<company_data, assumptions, om, projected_income,
                   projected_balance, projected_cashflow, operating_model_data,
                   dcf, locals, exc, response>>

\* app.py lines 125-128
Respond200 ==
    /\ pc = "calculate_all_returned"
    /\ response' = 200
    /\ pc' = "done"
    /\ UNCHANGED <<company_data, assumptions, om, projected_income,
                   projected_balance, projected_cashflow, operating_model_data,
                   dcf, locals, dcf_results, exc>>

\* app.py lines 130-134
HandleException ==
    /\ pc = "except"
    /\ response' = 500
    /\ pc' = "done"
    /\ UNCHANGED <<company_data, assumptions, om, projected_income,
                   projected_balance, projected_cashflow, operating_model_data,
                   dcf, locals, dcf_results, exc>>

CalculateAll ==
    \/ AllWacc
    \/ AllFreeCashFlow
    \/ AllTerminalValue
    \/ AllEnterpriseValue
    \/ AllEquityValue
    \/ AllPresentValues
    \/ AllReturn

BuildModel ==
    \/ BuildPrepare
    \/ BuildProjectIncome
    \/ BuildProjectBalance
    \/ BuildProjectCashFlow
    \/ BuildCombine

Next ==
    \/ RejectRequest
    \/ AcceptRequest
    \/ BuildModel
    \/ AnswerModelError
    \/ CreateCalculator
    \/ CalculateAll
    \/ Respond200
    \/ HandleException

Spec == Init /\ [][Next]_vars

(***************************************************************************)
(* DCFCalculator on records supplied directly                              *)
(*                                                                         *)
(* DCFCalculator reads each statement with pd.DataFrame(d) and looks the   *)
(* years up in the frame's index: the records here are keyed line item ->  *)
(* year -> value, the orientation in which the years are the index, next   *)
(* to one keyed year -> line item -> value.                                *)
(***************************************************************************)
YearLabels(first, n) == {Str(BaseYear + t) : t \in first .. n}

\* items: the line items in key order; value(item, t): the cell of year BaseYear + t
ByItem(items, first, n, value(_, _)) ==
    IF n < first THEN EmptyDict
    ELSE Table(items, YearLabels(first, n),
               [k \in SeqToSet(items) |->
                  [y \in YearLabels(first, n) |->
                     value(k, CHOOSE t \in first .. n : Str(BaseYear + t) = y)]])

ByYear(items, first, n, value(_, _)) ==
    IF n < first THEN EmptyDict
    ELSE Table([i \in 1 .. (n - first + 1) |-> Str(BaseYear + first + i - 1)],
               SeqToSet(items),
               [y \in YearLabels(first, n) |->
                  [k \in SeqToSet(items) |->
                     value(k, CHOOSE t \in first .. n : Str(BaseYear + t) = y)]])

DirectCashItems ==
    <<"OperatingCashFlow", "CapitalExpenditures", "ChangeInWorkingCapital">>

CashValue(k, t) ==
    CASE k = "OperatingCashFlow" -> Z(100 * t + 50)
      [] k = "CapitalExpenditures" -> Neg(Z(20))
      [] OTHER -> Z(5)

\* OperatingCashFlow - abs(CapitalExpenditures) = 0 in every year
CashValueZeroFcf(k, t) ==
    CASE k = "OperatingCashFlow" -> Z(20)
      [] k = "CapitalExpenditures" -> Neg(Z(20))
      [] OTHER -> Z(5 * t)

DirectCashFlows(n) ==
    { MissingDict, EmptyDict,
      ByItem(DirectCashItems, 1, n, CashValue),
      ByItem(DirectCashItems, 1, n, CashValueZeroFcf),
      ByItem(DirectCashItems, 1, n - 1, CashValue),
      ByItem(<<"OperatingCashFlow">>, 1, n, CashValue),
      ByYear(DirectCashItems, 1, n, CashValue) }

IncomeValue(k, t) ==
    CASE k = "OperatingIncome" -> Z(40 * t)
      [] OTHER -> Neg(Z(8))

DirectIncomes(n) ==
    { MissingDict, EmptyDict,
      ByItem(<<"OperatingIncome", "D&A">>, 1, n, IncomeValue),
      ByYear(<<"OperatingIncome", "D&A">>, 1, n, IncomeValue) }

BalanceValue(k, t) ==
    CASE k = "LongTermDebt" -> Z(90)
      [] k = "Cash" -> Z(30)
      [] OTHER -> Z(10)

DirectBalances ==
    { MissingDict,
      ByItem(<<"LongTermDebt", "Cash", "ShortTermInvestments">>, 0, 0, BalanceValue),
      ByItem(<<"LongTermDebt", "Cash">>, 1, 1, BalanceValue),
      ByYear(<<"LongTermDebt", "Cash", "ShortTermInvestments">>, 0, 0, BalanceValue) }

DirectModelData ==
    { [error |-> "", income_statement |-> i, balance_sheet |-> b, cash_flow |-> c,
       latest_year |-> Given(BaseYear), projection_years |-> Given(n)] :
        <<n, i, c>> \in UNION { {n} \X DirectIncomes(n) \X DirectCashFlows(n) :
                                  n \in 1 .. MaxN },
        b \in DirectBalances }

DirectAssumptions ==
    { Assumptions(NoneArg, NoneArg, NoneArg, d.tax, NoneInt, d.rf, d.beta, d.mrp,
                  d.cod, d.de, d.tg, d.shares) : d \in DcfProfiles }

NoCompanyData ==
    [given |-> FALSE, income_statement |-> MissingDict,
     balance_sheet |-> MissingDict, cash_flow |-> MissingDict]

InitDCF ==
    /\ pc = "calculate_wacc"
    /\ company_data = NoCompanyData
    /\ assumptions \in DirectAssumptions
    /\ om = NoObject
    /\ projected_income = NoneDF
    /\ projected_balance = NoneDF
    /\ projected_cashflow = NoneDF
    /\ operating_model_data \in DirectModelData
    /\ dcf = NewDCFCalculator(operating_model_data, assumptions)
    /\ locals = NoLocals
    /\ dcf_results = NoResults
    /\ exc = NoException
    /\ response = 0

NextDCF == CalculateAll

SpecDCF == InitDCF /\ [][NextDCF]_vars

(***************************************************************************)
(* OperatingModel.build_model called on its own, for every company record  *)
(***************************************************************************)
InitBuild ==
    /\ pc = "prepare_historical_data"
    /\ company_data \in {c \in CompanyDataInputs : c.given}
    /\ assumptions \in AssumptionInputs
    /\ om = NewOperatingModel(company_data,
                              GetOr(assumptions.projection_years,
                                    DefaultProjectionYears))
    /\ projected_income = NoneDF
    /\ projected_balance = NoneDF
    /\ projected_cashflow = NoneDF
    /\ operating_model_data = NoModelData
    /\ dcf = NoObject
    /\ locals = NoLocals
    /\ dcf_results = NoResults
    /\ exc = NoException
    /\ response = 0

NextBuild == BuildModel

SpecBuild == InitBuild /\ [][NextBuild]_vars

(***************************************************************************)
(* DCFCalculator.calculate_wacc called on its own                          *)
(***************************************************************************)
\* each assumption left out or given; debt_to_equity also 0, -1/2 and -1
WaccAssumptions ==
    { Assumptions(NoneArg, NoneArg, NoneArg, tax, NoneInt, rf, beta, mrp, cod, de,
                  NoneArg, NoneArg) :
        tax \in {NoneArg, Given(Q(1, 2))},
        rf \in {NoneArg, Given(Q(1, 20))},
        beta \in {NoneArg, Given(Z(2))},
        mrp \in {NoneArg, Given(Q(1, 20))},
        cod \in {NoneArg, Given(Q(1, 10))},
        de \in {NoneArg, Given(Z(0)), Given(Z(1)), Given(Neg(Q(1, 2))),
                Given(Neg(Z(1)))} }

InitWacc ==
    /\ pc = "calculate_wacc"
    /\ company_data = NoCompanyData
    /\ assumptions \in WaccAssumptions
    /\ om = NoObject
    /\ projected_income = NoneDF
    /\ projected_balance = NoneDF
    /\ projected_cashflow = NoneDF
    /\ operating_model_data = NoModelData
    /\ dcf = NewDCFCalculator(operating_model_data, assumptions)
    /\ locals = NoLocals
    /\ dcf_results = NoResults
    /\ exc = NoException
    /\ response = 0

NextWacc == AllWacc

SpecWacc == InitWacc /\ [][NextWacc]_vars

(***************************************************************************)
(* The methods of one DCFCalculator called in any order                    *)
(***************************************************************************)
\* calculate_all, lines 232-237: each call after the one that gave r
AllThenFreeCashFlow(r) ==
    IF r.exc # "none" THEN r ELSE CalculateFreeCashFlow(r.self)

AllThenTerminalValue(r) ==
    IF r.exc # "none" THEN r ELSE CalculateTerminalValue(r.self)

AllThenEnterpriseValue(r) ==
    IF r.exc # "none" THEN r ELSE CalculateEnterpriseValue(r.self)

AllThenEquityValue(r) ==
    IF r.exc # "none" THEN r ELSE CalculateEquityValue(r.self)

AllThenPresentValues(r) ==
    IF r.exc # "none" THEN r ELSE CalculatePresentValues(r.self)

\* lines 241-263: the summary, the locals being the values the object holds
AllSummary(r) ==
    IF r.exc # "none" THEN [self |-> r.self, ret |-> NoResults, exc |-> r.exc]
    ELSE [self |-> r.self,
          ret |-> [returned |-> TRUE,
                   wacc |-> r.self.wacc.v,
                   free_cash_flows |-> [keys |-> r.self.free_cash_flows.keys,
                                        val |-> r.self.free_cash_flows.val],
                   terminal_value |-> r.self.terminal_value.v,
                   present_value_fcf |-> r.ret.pv_fcf,
                   present_value_terminal |-> r.ret.pv_terminal,
                   total_pv_fcf |-> r.ret.total_pv_fcf,
                   enterprise_value |-> r.self.enterprise_value.v,
                   equity_value |-> r.self.equity_value.v,
                   price_per_share |->
                       PricePerShare(r.self.equity_value.v,
                                     r.self.assumptions.shares_outstanding)],
          exc |-> "none"]

\* DCFCalculator.calculate_all as one call
CalculateAllOf(self) ==
    AllSummary(AllThenPresentValues(AllThenEquityValue(AllThenEnterpriseValue(
        AllThenTerminalValue(AllThenFreeCashFlow(CalculateWacc(self)))))))

\* a caller that keeps the object: the call returns or raises, the object
\* stays as the call left it
Called(r, name) ==
    /\ pc = "idle"
    /\ dcf' = r.self
    /\ exc' = IF r.exc = "none" THEN NoException ELSE [name |-> r.exc, from |-> name]
    /\ UNCHANGED <<pc, company_data, assumptions, om, projected_income,
                   projected_balance, projected_cashflow, operating_model_data,
                   locals, response>>

CallWacc ==
    Called(CalculateWacc(dcf), "calculate_wacc") /\ UNCHANGED dcf_results

CallFreeCashFlow ==
    Called(CalculateFreeCashFlow(dcf), "calculate_free_cash_flow")
    /\ UNCHANGED dcf_results

CallTerminalValue ==
    Called(CalculateTerminalValue(dcf), "calculate_terminal_value")
    /\ UNCHANGED dcf_results

CallPresentValues ==
    Called(CalculatePresentValues(dcf), "calculate_present_values")
    /\ UNCHANGED dcf_results

CallEnterpriseValue ==
    Called(CalculateEnterpriseValue(dcf), "calculate_enterprise_value")
    /\ UNCHANGED dcf_results

CallEquityValue ==
    Called(CalculateEquityValue(dcf), "calculate_equity_value")
    /\ UNCHANGED dcf_results

\* dcf_results keeps what the last calculate_all that returned has returned
CallCalculateAll ==
    /\ Called(CalculateAllOf(dcf), "calculate_all")
    /\ dcf_results' = IF CalculateAllOf(dcf).exc = "none"
                      THEN CalculateAllOf(dcf).ret
                      ELSE dcf_results

InitCalls ==
    /\ pc = "idle"
    /\ company_data = NoCompanyData
    /\ assumptions \in DirectAssumptions
    /\ om = NoObject
    /\ projected_income = NoneDF
    /\ projected_balance = NoneDF
    /\ projected_cashflow = NoneDF
    /\ operating_model_data \in DirectModelData
    /\ dcf = NewDCFCalculator(operating_model_data, assumptions)
    /\ locals = NoLocals
    /\ dcf_results = NoResults
    /\ exc = NoException
    /\ response = 0

NextCalls ==
    \/ CallWacc
    \/ CallFreeCashFlow
    \/ CallTerminalValue
    \/ CallPresentValues
    \/ CallEnterpriseValue
    \/ CallEquityValue
    \/ CallCalculateAll

SpecCalls == InitCalls /\ [][NextCalls]_vars

(***************************************************************************)
(* Properties                                                              *)
(***************************************************************************)
\* the year offsets 1..N of the record build_model returned
ModelOffsets == 1 .. operating_model_data.projection_years.v

ModelYear(t) == operating_model_data.latest_year.v + t

\* the projected row of year latest_year + t in a statement build_model returned
ModelRow(statement, t) == statement.cell[Str(ModelYear(t))]

\* C1: the free cash flow the claim states for year offset t of the returned model
C1_ExpectedFcf(t) ==
    LET cf == ModelRow(operating_model_data.cash_flow, t)
        inc == ModelRow(operating_model_data.income_statement, t)
        capex == AbsQ(cf["CapitalExpenditures"])
        primary == Sub(cf["OperatingCashFlow"], capex)
        tax_rate == GetOr(assumptions.tax_rate, DefaultTaxRate)
    IN  IF ~IsZero(primary) THEN primary
        ELSE Sub(Sub(Add(Mul(inc["OperatingIncome"], Sub(Z(1), tax_rate)),
                         AbsQ(inc["D&A"])),
                     capex),
                 cf["ChangeInWorkingCapital"])

\* C1 (as claimed): for the record build_model returned, calculate_free_cash_flow
\* gives for every projected year latest_year + t, t in 1..N, OperatingCashFlow_t -
\* |CapitalExpenditures_t| of that year's projected cash-flow row, and the
\* NOPAT + D&A - CapEx - ChangeInWorkingCapital fallback only when that is 0.
C1_FcfFromProjectedCashFlow ==
    dcf_results.returned =>
        \A t \in ModelOffsets :
            dcf_results.free_cash_flows.val[ModelYear(t)] = C1_ExpectedFcf(t)

\* C2 (as claimed): with the latest historical year in the returned balance sheet,
\* calculate_equity_value returns enterprise_value - (LongTermDebt - (Cash +
\* ShortTermInvestments)) of that year's row.
C2_EquityValueNetOfDebt ==
    (dcf_results.returned /\
     Str(ModelYear(0)) \in SeqToSet(operating_model_data.balance_sheet.keys)) =>
        LET row == ModelRow(operating_model_data.balance_sheet, 0)
            get(k) == IF k \in DOMAIN row THEN row[k] ELSE Z(0)
            net_debt == Sub(get("LongTermDebt"),
                            Add(get("Cash"), get("ShortTermInvestments")))
        IN  dcf_results.equity_value = Sub(dcf_results.enterprise_value, net_debt)

\* the discounted value of the returned free cash flow of year y
C3_Pv(y) ==
    Div(dcf_results.free_cash_flows.val[y],
        Pow(Add(Z(1), dcf_results.wacc),
            y - GetOr(operating_model_data.latest_year, DefaultLatestYear)))

C3_PvTerminal ==
    Div(dcf_results.terminal_value,
        Pow(Add(Z(1), dcf_results.wacc),
            GetOr(operating_model_data.projection_years, DefaultProjectionYears)))

C3_SumPv ==
    SumSeq([i \in 1 .. Len(dcf_results.free_cash_flows.keys) |->
              C3_Pv(dcf_results.free_cash_flows.keys[i])])

\* C3: in every result of calculate_all, enterprise_value is the sum over the
\* returned free_cash_flows of FCF_year / (1 + wacc)^(year - latest_year) plus
\* terminal_value / (1 + wacc)^projection_years, and present_value_fcf,
\* total_pv_fcf and present_value_terminal are exactly those terms.
C3_EnterpriseValueIsSumOfPresentValues ==
    dcf_results.returned =>
        /\ dcf_results.enterprise_value = Add(C3_SumPv, C3_PvTerminal)
        /\ dcf_results.present_value_fcf.keys = dcf_results.free_cash_flows.keys
        /\ \A y \in SeqToSet(dcf_results.free_cash_flows.keys) :
               dcf_results.present_value_fcf.val[y] = C3_Pv(y)
        /\ dcf_results.total_pv_fcf = C3_SumPv
        /\ dcf_results.present_value_terminal = C3_PvTerminal

\* C3 witness: a result with two non-zero free cash flows and a non-zero
\* terminal value, discounted at a non-zero rate.
C3_Witness ==
    /\ dcf_results.returned
    /\ Len(dcf_results.free_cash_flows.keys) >= 2
    /\ \A y \in SeqToSet(dcf_results.free_cash_flows.keys) :
           ~IsZero(dcf_results.free_cash_flows.val[y])
    /\ ~IsZero(dcf_results.terminal_value)
    /\ ~IsZero(dcf_results.wacc)
    /\ Gt(dcf_results.enterprise_value, Z(0))

\* the free cash flow of the last projected year held by the calculator
C4_FinalFcf ==
    dcf.free_cash_flows.val[dcf.free_cash_flows.keys[Len(dcf.free_cash_flows.keys)]]

C4_Growth == GetOr(dcf.assumptions.terminal_growth_rate, DefaultTerminalGrowth)

\* C4: calculate_terminal_value returns FCF_final * (1 + g) / (WACC - g) whenever
\* WACC > g and FCF_final * 10 in every other case, WACC = g included; the value
\* is never the result of a division by WACC - g <= 0 (it is never NaN).
\* The scenario of the specification: WACC 0.084, g 0.03, FCF 500 give 257500/27.
C4_TerminalValueGordonOrMultiple ==
    /\ TerminalValueOf(Z(500), Q(84, 1000), Q(3, 100)) = Q(257500, 27)
    /\ (pc \notin {"calculate_wacc", "calculate_free_cash_flow",
                   "calculate_terminal_value", "except"}) =>
          /\ dcf.terminal_value.given
          /\ ~IsNaN(dcf.terminal_value.v)
          /\ Gt(dcf.wacc.v, C4_Growth) =>
                 Mul(dcf.terminal_value.v, Sub(dcf.wacc.v, C4_Growth))
                     = Mul(C4_FinalFcf, Add(Z(1), C4_Growth))
          /\ ~Gt(dcf.wacc.v, C4_Growth) =>
                 dcf.terminal_value.v = Mul(C4_FinalFcf, Z(10))

\* C4 witness: the terminal value was computed with WACC equal to the growth rate
\* from a non-zero final free cash flow.
C4_Witness ==
    /\ pc = "calculate_enterprise_value"
    /\ dcf.wacc.v = C4_Growth
    /\ ~IsZero(C4_FinalFcf)
    /\ dcf.terminal_value.v = Mul(C4_FinalFcf, Z(10))

\* the latest historical year of the request's income statement
C5_LatestYear == SetMax(ParsedYears(company_data.income_statement.keys))

C5_ProjectedYears ==
    [t \in 1 .. GetOr(assumptions.projection_years, DefaultProjectionYears) |->
       C5_LatestYear + t]

\* C5: when build_model(N) is followed by calculate_all, free_cash_flows and
\* present_value_fcf of the result have exactly N entries each, keyed by the
\* years latest_year + 1 .. latest_year + N in that order.
C5_OneEntryPerProjectedYear ==
    dcf_results.returned =>
        /\ dcf_results.free_cash_flows.keys = C5_ProjectedYears
        /\ DOMAIN dcf_results.free_cash_flows.val = SeqToSet(C5_ProjectedYears)
        /\ dcf_results.present_value_fcf.keys = C5_ProjectedYears
        /\ DOMAIN dcf_results.present_value_fcf.val = SeqToSet(C5_ProjectedYears)

\* C5 witness: a request for two projected years answered by calculate_all.
C5_Witness ==
    /\ dcf_results.returned
    /\ response = 200
    /\ assumptions.projection_years.v = 2
    /\ Len(dcf_results.free_cash_flows.keys) = 2
    /\ Len(dcf_results.present_value_fcf.keys) = 2

\* C6 (as claimed): build_model lets no exception escape, whatever its input.
C6_BuildModelNeverRaises == exc.from # "build_model"

\* the request has an income statement with a parseable year label
C7_IncomeHasYear ==
    /\ company_data.income_statement.kind = "table"
    /\ ParsedYears(company_data.income_statement.keys) # {}

\* C7 (as claimed): with balance_sheet missing or empty and an income statement
\* that has a parseable year, build_model ends by returning an explicit error
\* result, raises nothing and holds no projected statement.
C7_BalanceSheetAbsentIsError ==
    (/\ ~Truthy(company_data.balance_sheet)
     /\ C7_IncomeHasYear
     /\ pc \in {"build_model_returned", "except"}) =>
        /\ exc = NoException
        /\ operating_model_data.error # ""
        /\ projected_income.none \/ Empty(projected_income)

\* income_statement missing, empty, or without any parseable year label
C8_IncomeUnusable ==
    \/ ~Truthy(company_data.income_statement)
    \/ /\ company_data.income_statement.kind = "table"
       /\ ParsedYears(company_data.income_statement.keys) = {}

\* C8: when income_statement is missing or empty, or none of its year labels is
\* parseable, build_model raises nothing and what it returns carries an 'error'
\* message and no statement, whatever balance_sheet and cash_flow are.
C8_UnusableIncomeIsErrorResult ==
    C8_IncomeUnusable =>
        /\ exc = NoException
        /\ pc # "except"
        /\ pc = "build_model_returned" =>
               /\ operating_model_data.error # ""
               /\ operating_model_data.income_statement = MissingDict
               /\ operating_model_data.balance_sheet = MissingDict
               /\ operating_model_data.cash_flow = MissingDict

\* C8 witness: build_model returned for an income statement whose labels do not
\* parse, next to a usable balance sheet and cash-flow statement.
C8_Witness ==
    /\ pc = "build_model_returned"
    /\ company_data.income_statement.kind = "table"
    /\ ParsedYears(company_data.income_statement.keys) = {}
    /\ company_data.balance_sheet.kind = "table"
    /\ company_data.cash_flow.kind = "table"
    /\ operating_model_data.error =
           "Could not determine latest year from historical data"

\* C9 (as claimed): calculate_all on a record whose cash_flow or income_statement
\* is missing or empty raises nothing (it answers with an error result).
C9_MissingStatementsDoNotRaise ==
    (\/ operating_model_data.cash_flow.kind \in {"missing", "empty"}
     \/ operating_model_data.income_statement.kind \in {"missing", "empty"}) =>
        exc = NoException

\* the historical Revenue of the latest year (0 without a Revenue column)
C10_RevenueOfLatestYear ==
    IF "Revenue" \in om.income_statement.columns
    THEN om.income_statement.at[GetLatestYear(om)]["Revenue"]
    ELSE Z(0)

\* the revenue the projection starts from: that of the latest year, and when
\* that is 0 the last non-zero Revenue of the historical rows in row order
C10_StartingRevenue ==
    IF ~IsZero(C10_RevenueOfLatestYear) THEN C10_RevenueOfLatestYear
    ELSE LET revenues == ColSeq(om.income_statement, "Revenue")
             last == SetMax({i \in 1 .. Len(revenues) : ~IsZero(revenues[i])})
         IN  IF "Revenue" \in om.income_statement.columns THEN revenues[last]
             ELSE Z(0)

C10_Growth == EffectiveRevenueGrowth(om.income_statement, assumptions.revenue_growth)

C10_Projected == ~projected_income.none /\ ~Empty(projected_income)

C10_Revenue(t) ==
    projected_income.at[Str(IntOf(GetLatestYear(om)) + t)]["Revenue"]

\* C10 (as claimed): every projected Revenue(latest + t) is LatestRevenue *
\* (1 + g)^t with LatestRevenue the Revenue of the latest historical year.
C10_RevenueFromLatestYear ==
    C10_Projected =>
        \A t \in 1 .. Len(projected_income.index) :
            C10_Revenue(t) =
                Mul(C10_RevenueOfLatestYear, Pow(Add(Z(1), C10_Growth), t))

\* C10 (amended): every projected Revenue(latest + t), t in 1..N, is
\* StartingRevenue * (1 + g)^t, where StartingRevenue is the Revenue of the
\* latest historical year or, when that is 0, the last non-zero Revenue of the
\* historical rows; it depends on no other projected year (4049 at 5% gives
\* 4251.45 for t = 1).
C10_RevenueCompounded ==
    /\ ProjectedRevenue(Z(4049), Q(5, 100), 1) = Q(425145, 100)
    /\ C10_Projected =>
          /\ Len(projected_income.index) = om.projection_years
          /\ \A t \in 1 .. om.projection_years :
                 C10_Revenue(t) =
                     Mul(C10_StartingRevenue, Pow(Add(Z(1), C10_Growth), t))

\* C10 witness: two years projected at a non-zero growth rate from the revenue of
\* an earlier year, the latest year's being 0.
C10_Witness ==
    /\ C10_Projected
    /\ Len(projected_income.index) = 2
    /\ IsZero(C10_RevenueOfLatestYear)
    /\ ~IsZero(C10_Growth)
    /\ ~IsZero(C10_Revenue(2))
    /\ C10_Revenue(2) # Mul(C10_Revenue(1), Z(2))

\* build_model returned a statements record
ModelReturned == pc = "build_model_returned" /\ operating_model_data.error = ""

\* the years of the returned income statement that carry the three items
C11_Years ==
    {y \in SeqToSet(operating_model_data.income_statement.keys) :
        {"Revenue", "COGS", "GrossProfit"} \subseteq
            operating_model_data.income_statement.items}

C11_Cell(y, k) == operating_model_data.income_statement.cell[y][k]

C11_IsProjected(y) == y \notin SeqToSet(company_data.income_statement.keys)

C12_Prepared ==
    /\ pc # "prepare_historical_data"
    /\ company_data.income_statement.kind = "table"
    /\ ~om.income_statement.none

C12_RawItems == company_data.income_statement.items

\* the numerically coerced raw value of a line item, with the sign the
\* normalization gives it
C12_Raw(r, k) ==
    IF k \in ExpenseItems
    THEN Neg(AbsQ(Fillna0(ToNumeric(company_data.income_statement.cell[r][k]))))
    ELSE IF k = "InterestIncome"
    THEN AbsQ(Fillna0(ToNumeric(company_data.income_statement.cell[r][k])))
    ELSE Fillna0(ToNumeric(company_data.income_statement.cell[r][k]))

\* the raw value of an optional addend, 0 when the raw data lack the item
C12_Opt(r, k) == IF k \in C12_RawItems THEN C12_Raw(r, k) ELSE Z(0)

\* which aggregates the frame is to carry, and their values by the formulas,
\* when a supplied GrossProfit is kept (kept = TRUE) or recomputed
C12_HasGrossProfit ==
    "GrossProfit" \in C12_RawItems \/ {"Revenue", "COGS"} \subseteq C12_RawItems

C12_GrossProfit(r, kept) ==
    IF (kept /\ "GrossProfit" \in C12_RawItems)
       \/ ~({"Revenue", "COGS"} \subseteq C12_RawItems)
    THEN C12_Raw(r, "GrossProfit")
    ELSE Add(C12_Raw(r, "Revenue"), C12_Raw(r, "COGS"))

C12_HasOperatingIncome == "OperatingIncome" \in C12_RawItems \/ C12_HasGrossProfit

C12_OperatingIncome(r, kept) ==
    IF "OperatingIncome" \in C12_RawItems
    THEN C12_Raw(r, "OperatingIncome")
    ELSE Add(Add(Add(C12_GrossProfit(r, kept), C12_Opt(r, "SG&A")),
                 C12_Opt(r, "OtherOperatingExpenses")),
             C12_Opt(r, "D&A"))

C12_HasEBITDA ==
    "EBITDA" \in C12_RawItems \/ (C12_HasOperatingIncome /\ "D&A" \in C12_RawItems)

C12_EBITDA(r, kept) ==
    IF "EBITDA" \in C12_RawItems
    THEN C12_Raw(r, "EBITDA")
    ELSE Sub(C12_OperatingIncome(r, kept), C12_Raw(r, "D&A"))

C12_HasEBT == "EBT" \in C12_RawItems \/ C12_HasOperatingIncome

C12_EBT(r, kept) ==
    IF "EBT" \in C12_RawItems
    THEN C12_Raw(r, "EBT")
    ELSE Add(Add(Add(C12_OperatingIncome(r, kept), C12_Opt(r, "InterestExpense")),
                 C12_Opt(r, "InterestIncome")),
             C12_Opt(r, "OtherUnusualItems"))

C12_HasNetIncome == "NetIncome" \in C12_RawItems \/ C12_HasEBT

C12_NetIncome(r, kept) ==
    IF "NetIncome" \in C12_RawItems
    THEN C12_Raw(r, "NetIncome")
    ELSE Add(C12_EBT(r, kept), C12_Opt(r, "TaxExpense"))

C12_Aggregates(kept) ==
    /\ ("GrossProfit" \in om.income_statement.columns) = C12_HasGrossProfit
    /\ ("OperatingIncome" \in om.income_statement.columns) = C12_HasOperatingIncome
    /\ ("EBITDA" \in om.income_statement.columns) = C12_HasEBITDA
    /\ ("EBT" \in om.income_statement.columns) = C12_HasEBT
    /\ ("NetIncome" \in om.income_statement.columns) = C12_HasNetIncome
    /\ \A r \in SeqToSet(om.income_statement.index) :
          /\ C12_HasGrossProfit =>
                om.income_statement.at[r]["GrossProfit"] = C12_GrossProfit(r, kept)
          /\ C12_HasOperatingIncome =>
                om.income_statement.at[r]["OperatingIncome"] = C12_OperatingIncome(r, kept)
          /\ C12_HasEBITDA =>
                om.income_statement.at[r]["EBITDA"] = C12_EBITDA(r, kept)
          /\ C12_HasEBT =>
                om.income_statement.at[r]["EBT"] = C12_EBT(r, kept)
          /\ C12_HasNetIncome =>
                om.income_statement.at[r]["NetIncome"] = C12_NetIncome(r, kept)

\* C12 (as claimed): prepare_historical_data fills each of GrossProfit,
\* OperatingIncome, EBITDA, EBT and NetIncome only when the raw data do not
\* supply it, by the stated formulas in dependency order; a supplied aggregate
\* keeps its numerically coerced value.
C12_EveryAggregateFilledOnlyIfAbsent == C12_Prepared => C12_Aggregates(TRUE)

\* C12 (amended): GrossProfit is Revenue + COGS whenever the raw data carry
\* both, a supplied GrossProfit being overwritten; OperatingIncome, EBITDA, EBT
\* and NetIncome are filled only when the raw data do not supply them, in
\* dependency order: OperatingIncome = GrossProfit + SG&A +
\* OtherOperatingExpenses + D&A, EBITDA = OperatingIncome - D&A, EBT =
\* OperatingIncome + InterestExpense + InterestIncome + OtherUnusualItems,
\* NetIncome = EBT + TaxExpense; a supplied one keeps its coerced value.
C12_AggregatesFilledInOrder == C12_Prepared => C12_Aggregates(FALSE)

\* C12 witness: a prepared frame whose raw data supplied OperatingIncome (33)
\* and nothing else: EBITDA, EBT and NetIncome are derived from the supplied
\* value, GrossProfit from Revenue and COGS.
C12_Witness ==
    /\ C12_Prepared
    /\ company_data.income_statement = IncomeTableOperatingIncomeSupplied
    /\ om.income_statement.at[Str(BaseYear - 1)]["OperatingIncome"] = Z(33)
    /\ om.income_statement.at[Str(BaseYear - 1)]["EBITDA"] = Z(43)
    /\ om.income_statement.at[Str(BaseYear - 1)]["EBT"] = Z(27)
    /\ om.income_statement.at[Str(BaseYear - 1)]["NetIncome"] = Z(24)
    /\ om.income_statement.at[Str(BaseYear - 1)]["GrossProfit"] = Z(40)

(***************************************************************************)
(* C13: the sign convention of expense items                               *)
(***************************************************************************)
\* the raw value of a cell read as a number: non-numeric and missing count 0
C13_Coerced(r, k) ==
    IF company_data.income_statement.cell[r][k][2] = 0
    THEN Z(0)
    ELSE company_data.income_statement.cell[r][k]

\* lines 41-62 run once more on a frame
C13_Normalization(df) ==
    NormalizeInterestIncome(NormalizeExpenses(CoerceNumeric(df)))

\* C13: after prepare_historical_data every expense item present equals minus
\* the absolute value of its numerically coerced raw value, for every
\* historical year, non-numeric and missing raw values counting as 0; running
\* the normalization on the normalized frame changes nothing.
C13_ExpensesAreMinusAbs ==
    C12_Prepared =>
        /\ \A r \in SeqToSet(om.income_statement.index) :
              \A k \in ExpenseItems \cap om.income_statement.columns :
                  /\ k \in company_data.income_statement.items
                  /\ om.income_statement.at[r][k] = Neg(AbsQ(C13_Coerced(r, k)))
                  /\ ~Gt(om.income_statement.at[r][k], Z(0))
        /\ C13_Normalization(om.income_statement) = om.income_statement

\* C13 witness: a prepared frame whose raw row had a non-numeric D&A, a
\* TaxExpense reported as -3 and a COGS reported as +60.
C13_Witness ==
    /\ C12_Prepared
    /\ company_data.income_statement = IncomeTable(Asc, OlderRowNonNumeric, LatestRow)
    /\ om.income_statement.at[Asc[1]]["D&A"] = Z(0)
    /\ om.income_statement.at[Asc[1]]["TaxExpense"] = Neg(Z(3))
    /\ om.income_statement.at[Asc[1]]["COGS"] = Neg(Z(60))

(***************************************************************************)
(* C14: plain and date-prefixed year labels                                *)
(***************************************************************************)
\* the fiscal years the labels of the historical income statement name
C14_LabelYears ==
    {y \in YearRange :
        \E i \in 1 .. Len(company_data.income_statement.keys) :
            company_data.income_statement.keys[i] \in {Str(y), DateLabel(y)}}

\* every label is a plain year or a date-prefixed year
C14_PlainOrDateLabels ==
    /\ company_data.income_statement.kind = "table"
    /\ \A i \in 1 .. Len(company_data.income_statement.keys) :
          \E y \in YearRange :
              company_data.income_statement.keys[i] \in {Str(y), DateLabel(y)}

\* project_income_statement has been called and is over
C14_IncomeProjectionOver ==
    /\ C12_Prepared
    /\ pc \notin {"prepare_historical_data", "project_income_statement"}
    /\ ~(pc = "build_model_returned"
         /\ operating_model_data = ErrorResult("Failed to prepare historical data"))

\* C14 (as claimed): for an income index of plain years ('2023') or
\* date-prefixed years ('2023-12-31') the latest year is the maximum year
\* parsed over all labels, and build_model projects the years latest_year+1 ..
\* latest_year+N from that year's historical row for both label formats: the
\* projection reads the row without raising, and a non-empty projection has
\* exactly those years.
C14_ProjectsForBothLabelFormats ==
    (C14_PlainOrDateLabels /\ C14_IncomeProjectionOver) =>
        /\ GetLatestYear(om) = Str(SetMax(C14_LabelYears))
        /\ ~(pc = "except" /\ exc.name = "KeyError" /\ projected_income = NoneDF)
        /\ (pc # "except" /\ ~Empty(projected_income)) =>
              projected_income.index =
                  [t \in 1 .. om.projection_years |->
                      Str(SetMax(C14_LabelYears) + t)]

(***************************************************************************)
(* C15: the weighted average cost of capital                               *)
(***************************************************************************)
\* the assumptions calculate_wacc reads, defaults filled in
C15_DebtToEquity == GetOr(assumptions.debt_to_equity, Q(3, 10))
C15_CostOfEquity ==
    Add(GetOr(assumptions.risk_free_rate, Q(3, 100)),
        Mul(GetOr(assumptions.beta, Z(1)),
            GetOr(assumptions.market_risk_premium, Q(6, 100))))
C15_AfterTaxCostOfDebt ==
    Mul(GetOr(assumptions.cost_of_debt, Q(5, 100)),
        Sub(Z(1), GetOr(assumptions.tax_rate, Q(1, 4))))
C15_DebtWeight == Div(C15_DebtToEquity, Add(Z(1), C15_DebtToEquity))
C15_EquityWeight == Div(Z(1), Add(Z(1), C15_DebtToEquity))

\* calculate_wacc has returned
C15_WaccReturned == pc = "calculate_free_cash_flow" /\ dcf.wacc.given

C15_AllDefaults ==
    \A k \in {"risk_free_rate", "beta", "market_risk_premium", "cost_of_debt",
              "tax_rate", "debt_to_equity"} : ~assumptions[k].given

\* C15: calculate_wacc returns equity_weight*(rf + beta*premium) +
\* debt_weight*cost_of_debt*(1 - tax) with debt_weight = D/E/(1 + D/E) and
\* equity_weight = 1/(1 + D/E); the weights sum to 1 for every D/E other than
\* -1, the call returns for every such D/E, and the defaults (D/E 0.3, cost of
\* debt 0.05, tax 0.25, risk-free 0.03, beta 1, premium 0.06) give 81/1040,
\* about 0.0779.
C15_WaccFormula ==
    /\ C15_WaccReturned =>
          /\ locals.wacc = Add(Mul(C15_EquityWeight, C15_CostOfEquity),
                               Mul(C15_DebtWeight, C15_AfterTaxCostOfDebt))
          /\ dcf.wacc.v = locals.wacc
          /\ Add(C15_DebtWeight, C15_EquityWeight) = Z(1)
          /\ C15_AllDefaults => locals.wacc = Q(81, 1040)
    /\ (pc # "calculate_wacc" /\ C15_DebtToEquity # Neg(Z(1))) => C15_WaccReturned

\* C15 witness: calculate_wacc has returned 81/1040 for the default assumptions
C15_Witness ==
    /\ C15_WaccReturned
    /\ C15_AllDefaults
    /\ locals.wacc = Q(81, 1040)
    /\ Gt(locals.wacc, Q(778, 10000)) /\ Lt(locals.wacc, Q(780, 10000))

(***************************************************************************)
(* C16: the default revenue growth                                         *)
(***************************************************************************)
\* the fiscal years of the prepared income statement, labels being plain years
C16_FiscalYears == {y \in YearRange : InIndex(om.income_statement, Str(y))}

\* Revenue by fiscal year, earliest first
C16_RevenueInYearOrder ==
    [i \in 1 .. Cardinality(C16_FiscalYears) |->
        om.income_statement.at[
            Str(CHOOSE y \in C16_FiscalYears :
                    Cardinality({z \in C16_FiscalYears : z < y}) = i - 1)]["Revenue"]]

\* the steps i-1 -> i whose predecessor is not 0
C16_UsableSteps ==
    {i \in 2 .. Len(C16_RevenueInYearOrder) : ~IsZero(C16_RevenueInYearOrder[i - 1])}

C16_StepRates ==
    [i \in 1 .. Len(C16_RevenueInYearOrder) |->
        IF i \in C16_UsableSteps
        THEN Div(Sub(C16_RevenueInYearOrder[i], C16_RevenueInYearOrder[i - 1]),
                 AbsQ(C16_RevenueInYearOrder[i - 1]))
        ELSE Z(0)]

C16_MeanGrowthInYearOrder ==
    IF C16_UsableSteps = {} THEN Z(0)
    ELSE Div(SumSeq(C16_StepRates), Z(Cardinality(C16_UsableSteps)))

\* C16 (as claimed): when revenue_growth is not supplied, the growth rate the
\* projection uses is the arithmetic mean of (v[i] - v[i-1])/|v[i-1]| over
\* the consecutive historical years of Revenue in fiscal-year order, steps with
\* a predecessor of 0 skipped, and 0 when there is no usable step.
C16_DefaultGrowthInFiscalYearOrder ==
    (/\ C10_Projected
     /\ ~assumptions.revenue_growth.given
     /\ "Revenue" \in om.income_statement.columns
     /\ \A i \in 1 .. Len(om.income_statement.index) :
            IsDigit(om.income_statement.index[i])) =>
        /\ C10_Growth = C16_MeanGrowthInYearOrder
        /\ C10_Revenue(1) =
               Mul(C10_StartingRevenue, Add(Z(1), C16_MeanGrowthInYearOrder))

(***************************************************************************)
(* C17: the derived gross margin                                           *)
(***************************************************************************)
\* the historical years with non-zero Revenue and non-zero COGS
C17_ValidYears ==
    IF {"Revenue", "COGS"} \subseteq om.income_statement.columns
    THEN {i \in 1 .. Len(om.income_statement.index) :
            /\ ~IsZero(om.income_statement.at[om.income_statement.index[i]]["Revenue"])
            /\ ~IsZero(om.income_statement.at[om.income_statement.index[i]]["COGS"])}
    ELSE {}

\* (Revenue + COGS)/Revenue of the valid years, 0 elsewhere
C17_Margins ==
    [i \in 1 .. Len(om.income_statement.index) |->
        IF i \in C17_ValidYears
        THEN Div(Add(om.income_statement.at[om.income_statement.index[i]]["Revenue"],
                     om.income_statement.at[om.income_statement.index[i]]["COGS"]),
                 om.income_statement.at[om.income_statement.index[i]]["Revenue"])
        ELSE Z(0)]

C17_MeanMargin == Div(SumSeq(C17_Margins), Z(Cardinality(C17_ValidYears)))

C17_Expected ==
    IF C17_ValidYears = {} THEN Q(1, 2)
    ELSE IF Lt(C17_MeanMargin, Q(1, 10)) THEN Q(1, 10)
    ELSE IF Gt(C17_MeanMargin, Q(9, 10)) THEN Q(9, 10)
    ELSE C17_MeanMargin

\* the gross margin the first projected year was built with:
\* COGS = -Revenue*(1 - gross_margin)
C17_MarginUsed ==
    Add(Z(1), Div(projected_income.at[projected_income.index[1]]["COGS"],
                  projected_income.at[projected_income.index[1]]["Revenue"]))

C17_Derived ==
    /\ C10_Projected
    /\ ~assumptions.gross_margin.given
    /\ ~IsZero(projected_income.at[projected_income.index[1]]["Revenue"])

\* C17: when gross_margin is not supplied the gross margin the projection uses
\* lies in [0.1, 0.9]: it is the mean of (Revenue + COGS)/Revenue over the
\* years with non-zero Revenue and non-zero COGS, clamped to that interval,
\* and 0.5 when there is no such year.
C17_GrossMarginClamped ==
    C17_Derived =>
        /\ ~Lt(C17_MarginUsed, Q(1, 10))
        /\ ~Gt(C17_MarginUsed, Q(9, 10))
        /\ C17_MarginUsed = C17_Expected

\* C17 witness: a projection built from a history whose mean margin, 19/20,
\* is above the interval: the margin used is 9/10.
C17_Witness ==
    /\ C17_Derived
    /\ C17_ValidYears # {}
    /\ C17_MeanMargin = Q(19, 20)
    /\ C17_MarginUsed = Q(9, 10)

(***************************************************************************)
(* C18: the returned statements hold finite numbers only                   *)
(***************************************************************************)
\* a finite number: neither NaN nor an infinity
C18_Finite(v) == v[2] # 0

C18_AllFinite(statement) ==
    \A r \in SeqToSet(statement.keys) :
        \A k \in statement.items : C18_Finite(statement.cell[r][k])

\* the line items the projected balance sheet has and the historical one lacks
C18_ProjectedOnlyItems == projected_balance.columns \ om.balance_sheet.columns

\* C18: every numeric value of the income_statement, balance_sheet and
\* cash_flow mappings build_model returns is finite; a cell that is missing
\* because the historical rows lack a line item of the projected rows is 0.0.
C18_ReturnedValuesFinite ==
    ModelReturned =>
        /\ C18_AllFinite(operating_model_data.income_statement)
        /\ C18_AllFinite(operating_model_data.balance_sheet)
        /\ C18_AllFinite(operating_model_data.cash_flow)
        /\ \A r \in SeqToSet(om.balance_sheet.index) :
              \A k \in C18_ProjectedOnlyItems :
                  (~Empty(om.balance_sheet) /\ ~Empty(projected_balance)) =>
                      operating_model_data.balance_sheet.cell[r][k] = Z(0)

\* C18 witness: a returned record whose historical balance sheet rows lack
\* line items of the projected rows; those cells read 0.
C18_Witness ==
    /\ ModelReturned
    /\ ~Empty(om.balance_sheet)
    /\ ~Empty(projected_balance)
    /\ C18_ProjectedOnlyItems # {}
    /\ \A k \in C18_ProjectedOnlyItems :
          operating_model_data.balance_sheet.cell[om.balance_sheet.index[1]][k] = Z(0)

(***************************************************************************)
(* C19: the price per share                                                *)
(***************************************************************************)
\* C19: calculate_all returns price_per_share = equity_value /
\* shares_outstanding when shares_outstanding is supplied, and None when it is
\* not; a shares_outstanding of 0 gives None and no division by zero.
C19_PricePerShare ==
    /\ dcf_results.returned =>
          /\ (assumptions.shares_outstanding.given
              /\ assumptions.shares_outstanding.v # Z(0)) =>
                 /\ dcf_results.price_per_share.given
                 /\ Mul(dcf_results.price_per_share.v,
                        assumptions.shares_outstanding.v)
                        = dcf_results.equity_value
          /\ ~assumptions.shares_outstanding.given =>
                 ~dcf_results.price_per_share.given
          /\ (assumptions.shares_outstanding.given
              /\ assumptions.shares_outstanding.v = Z(0)) =>
                 ~dcf_results.price_per_share.given
    /\ exc.name # "ZeroDivisionError"

\* C19 witness: a summary returned for 10 shares with a non-zero equity value
\* and its tenth as the price per share.
C19_Witness ==
    /\ dcf_results.returned
    /\ assumptions.shares_outstanding = Given(Z(10))
    /\ ~IsZero(dcf_results.equity_value)
    /\ dcf_results.price_per_share = Given(Div(dcf_results.equity_value, Z(10)))

(***************************************************************************)
(* C20: projected PPE                                                      *)
(***************************************************************************)
C20_Projected == ~projected_balance.none /\ ~Empty(projected_balance)

C20_Year(t) == Str(IntOf(GetLatestYear(om)) + t)

C20_LatestPPE ==
    IF "PPE" \in om.balance_sheet.columns
    THEN om.balance_sheet.at[GetLatestYear(om)]["PPE"]
    ELSE Z(0)

\* 0.04 * Revenue_t - |D&A_t| of the projected income statement
C20_NetInvestment(t) ==
    Sub(Mul(Q(4, 100), projected_income.at[C20_Year(t)]["Revenue"]),
        AbsQ(projected_income.at[C20_Year(t)]["D&A"]))

\* C20 (as claimed): projected PPE rolls forward year by year: PPE_1 = latest
\* historical PPE + 0.04*Revenue_1 - |D&A_1|, and for t >= 2, PPE_t =
\* PPE_(t-1) + 0.04*Revenue_t - |D&A_t|.
C20_PPERollsForward ==
    C20_Projected =>
        \A t \in 1 .. om.projection_years :
            projected_balance.at[C20_Year(t)]["PPE"] =
                Add(IF t = 1 THEN C20_LatestPPE
                    ELSE projected_balance.at[C20_Year(t - 1)]["PPE"],
                    C20_NetInvestment(t))

(***************************************************************************)
(* C21: projected RetainedEarnings                                         *)
(***************************************************************************)
C21_LatestRetainedEarnings ==
    IF "RetainedEarnings" \in om.balance_sheet.columns
    THEN om.balance_sheet.at[GetLatestYear(om)]["RetainedEarnings"]
    ELSE Z(0)

\* C21 (as claimed): projected RetainedEarnings accumulates: RE_1 = latest
\* historical RE + NetIncome_1, and for every t >= 2, RE_t = RE_(t-1) +
\* NetIncome_t.
C21_RetainedEarningsAccumulate ==
    C20_Projected =>
        \A t \in 1 .. om.projection_years :
            projected_balance.at[C20_Year(t)]["RetainedEarnings"] =
                Add(IF t = 1 THEN C21_LatestRetainedEarnings
                    ELSE projected_balance.at[C20_Year(t - 1)]["RetainedEarnings"],
                    projected_income.at[C20_Year(t)]["NetIncome"])

(***************************************************************************)
(* C22: working capital and operating cash flow                            *)
(***************************************************************************)
C22_Projected == ~projected_cashflow.none /\ ~Empty(projected_cashflow)

\* the balance-sheet row before year t: the latest historical one for t = 1,
\* the projected one of year t - 1 after that
C22_Prev(t, k) ==
    IF t = 1 THEN om.balance_sheet.at[GetLatestYear(om)][k]
    ELSE projected_balance.at[C20_Year(t - 1)][k]

C22_ChangeInWorkingCapital(t) ==
    Add(Sub(C22_Prev(t, "CurrentAssets"),
            projected_balance.at[C20_Year(t)]["CurrentAssets"]),
        Sub(projected_balance.at[C20_Year(t)]["ShortTermLiabilities"],
            C22_Prev(t, "ShortTermLiabilities")))

\* C22: in every projected year t, ChangeInWorkingCapital_t =
\* (PrevCurrentAssets - CurrentAssets_t) + (ShortTermLiabilities_t -
\* PrevShortTermLiabilities) with Prev the latest historical balance-sheet row
\* for t = 1 and the projected row of year t-1 for t > 1, and
\* OperatingCashFlow_t = NetIncome_t + |D&A_t| + ChangeInWorkingCapital_t.
C22_WorkingCapitalAndOperatingCashFlow ==
    C22_Projected =>
        /\ Len(projected_cashflow.index) = om.projection_years
        /\ \A t \in 1 .. om.projection_years :
              /\ projected_cashflow.at[C20_Year(t)]["ChangeInWorkingCapital"]
                     = C22_ChangeInWorkingCapital(t)
              /\ projected_cashflow.at[C20_Year(t)]["OperatingCashFlow"]
                     = Add(Add(projected_income.at[C20_Year(t)]["NetIncome"],
                               AbsQ(projected_income.at[C20_Year(t)]["D&A"])),
                           C22_ChangeInWorkingCapital(t))

\* C22 witness: a second projected year whose working capital moved against
\* the first projected year, not against the latest historical row.
C22_Witness ==
    /\ C22_Projected
    /\ om.projection_years = 2
    /\ ~IsZero(projected_cashflow.at[C20_Year(2)]["ChangeInWorkingCapital"])
    /\ projected_balance.at[C20_Year(1)]["CurrentAssets"]
           # om.balance_sheet.at[GetLatestYear(om)]["CurrentAssets"]
    /\ projected_cashflow.at[C20_Year(2)]["OperatingCashFlow"]
           # Add(projected_income.at[C20_Year(2)]["NetIncome"],
                 AbsQ(projected_income.at[C20_Year(2)]["D&A"]))

(***************************************************************************)
(* C23: CurrentAssets and ShortTermLiabilities follow revenue              *)
(***************************************************************************)
\* the Revenue of the latest historical year; absent stands for the value
\* taken when the income statement has no Revenue line item
C23_LatestRevenue(absent) ==
    IF "Revenue" \in om.income_statement.columns
    THEN om.income_statement.at[GetLatestYear(om)]["Revenue"]
    ELSE absent

C23_Latest(k) ==
    IF k \in om.balance_sheet.columns
    THEN om.balance_sheet.at[GetLatestYear(om)][k]
    ELSE Z(0)

C23_Expected(t, k, absent) ==
    IF Gt(C23_LatestRevenue(absent), Z(0))
    THEN Mul(C23_Latest(k),
             Div(projected_income.at[C20_Year(t)]["Revenue"],
                 C23_LatestRevenue(absent)))
    ELSE C23_Latest(k)

C23_Scaled(absent) ==
    /\ exc.name # "ZeroDivisionError"
    /\ C20_Projected =>
          \A t \in 1 .. om.projection_years :
              \A k \in {"CurrentAssets", "ShortTermLiabilities"} :
                  /\ projected_balance.at[C20_Year(t)][k] = C23_Expected(t, k, absent)
                  /\ ~IsNaN(projected_balance.at[C20_Year(t)][k])

\* C23 (as claimed): in every projected year, CurrentAssets_t =
\* LatestCurrentAssets * (Revenue_t / LatestRevenue) and ShortTermLiabilities_t
\* = LatestShortTermLiabilities * (Revenue_t / LatestRevenue) when the latest
\* historical revenue is > 0; when it is <= 0 (a missing Revenue counting as
\* 0) both are carried forward unchanged from the latest historical row, and
\* no division by zero occurs.
C23_ScaledOrCarriedForward == C23_Scaled(Z(0))

\* What project_balance_sheet computes: as claimed when the historical income
\* statement has a Revenue line item; when it has none, the latest revenue is
\* taken as 1, so both items are Latest * Revenue_t, which is 0 since every
\* projected Revenue is then 0.
C23_ScaledWithRevenue ==
    /\ C23_Scaled(Z(1))
    /\ (C20_Projected /\ "Revenue" \notin om.income_statement.columns) =>
          \A t \in 1 .. om.projection_years :
              /\ IsZero(projected_income.at[C20_Year(t)]["Revenue"])
              /\ IsZero(projected_balance.at[C20_Year(t)]["CurrentAssets"])
              /\ IsZero(projected_balance.at[C20_Year(t)]["ShortTermLiabilities"])

\* a balance sheet projected from a latest year whose revenue is 0 while the
\* projected revenue is not: both items stay at their latest values
C23_CarriedForwardReached ==
    /\ C20_Projected
    /\ "Revenue" \in om.income_statement.columns
    /\ IsZero(C23_LatestRevenue(Z(1)))
    /\ ~IsZero(projected_income.at[C20_Year(1)]["Revenue"])
    /\ ~IsZero(C23_Latest("CurrentAssets"))
    /\ projected_balance.at[C20_Year(1)]["CurrentAssets"] = C23_Latest("CurrentAssets")
    /\ projected_balance.at[C20_Year(1)]["ShortTermLiabilities"]
           = C23_Latest("ShortTermLiabilities")

(***************************************************************************)
(* C24: the items held constant                                            *)
(***************************************************************************)
C24_ConstantItems ==
    {"Cash", "ShortTermInvestments", "LongTermDebt", "LongTermLeases",
     "OtherLongTermLiabilities", "CommonStock", "PaidInCapital"}

\* C24: in every projected year Cash, ShortTermInvestments, LongTermDebt,
\* LongTermLeases, OtherLongTermLiabilities, CommonStock and PaidInCapital
\* equal their value in the latest historical balance-sheet row, 0 when the
\* line item is absent, and FinancingCashFlow is 0.
C24_ItemsHeldConstant ==
    /\ C20_Projected =>
          /\ Len(projected_balance.index) = om.projection_years
          /\ \A t \in 1 .. om.projection_years :
                \A k \in C24_ConstantItems :
                    projected_balance.at[C20_Year(t)][k] = C23_Latest(k)
    /\ C22_Projected =>
          \A t \in 1 .. om.projection_years :
              projected_cashflow.at[C20_Year(t)]["FinancingCashFlow"] = Z(0)

\* C24 witness: two projected years with a cash flow statement, LongTermDebt
\* held at 90, Cash at 30 and the absent PaidInCapital at 0.
C24_Witness ==
    /\ C20_Projected
    /\ C22_Projected
    /\ om.projection_years = 2
    /\ "PaidInCapital" \notin om.balance_sheet.columns
    /\ projected_balance.at[C20_Year(2)]["PaidInCapital"] = Z(0)
    /\ projected_balance.at[C20_Year(2)]["LongTermDebt"] = Z(90)
    /\ projected_balance.at[C20_Year(2)]["Cash"] = Z(30)
    /\ projected_cashflow.at[C20_Year(2)]["FinancingCashFlow"] = Z(0)

(***************************************************************************)
(* C25: projected OtherLongTermAssets                                      *)
(***************************************************************************)
\* C25 (as claimed): projected OtherLongTermAssets grows by 2% each year:
\* OtherLongTermAssets_t = 1.02 * OtherLongTermAssets_(t-1) for every t >= 1,
\* year 0 being the latest historical value, that is latest * 1.02^t.
C25_OtherLongTermAssetsCompound ==
    C20_Projected =>
        \A t \in 1 .. om.projection_years :
            /\ projected_balance.at[C20_Year(t)]["OtherLongTermAssets"] =
                   Mul(Q(102, 100),
                       IF t = 1 THEN C23_Latest("OtherLongTermAssets")
                       ELSE projected_balance.at[C20_Year(t - 1)]["OtherLongTermAssets"])
            /\ projected_balance.at[C20_Year(t)]["OtherLongTermAssets"] =
                   Mul(C23_Latest("OtherLongTermAssets"), Pow(Q(102, 100), t))

(***************************************************************************)
(* C26: the sign of expense items in the returned income statement         *)
(***************************************************************************)
\* assumptions within their ranges: margins and rates in [0, 1]
C26_AdmissibleAssumptions ==
    \A k \in {"gross_margin", "sga_percent", "tax_rate"} :
        assumptions[k].given =>
            /\ ~Lt(assumptions[k].v, Z(0))
            /\ ~Gt(assumptions[k].v, Z(1))

\* no historical year reports a negative Revenue
C26_RevenueNonNegative ==
    "Revenue" \in om.income_statement.columns =>
        \A r \in SeqToSet(om.income_statement.index) :
            ~Lt(om.income_statement.at[r]["Revenue"], Z(0))

\* C26 (as claimed): in the income statement build_model returns, every
\* expense line item (COGS, SG&A, D&A, InterestExpense, TaxExpense,
\* OtherOperatingExpenses, OtherUnusualItems) is non-positive in every year,
\* projected years included, for every admissible assumption set and every
\* historical input.
C26_ExpensesNonPositive ==
    (ModelReturned /\ C26_AdmissibleAssumptions /\ C26_RevenueNonNegative) =>
        \A y \in SeqToSet(operating_model_data.income_statement.keys) :
            \A k \in ExpenseItems \cap operating_model_data.income_statement.items :
                ~Gt(operating_model_data.income_statement.cell[y][k], Z(0))

(***************************************************************************)
(* C27: the projected income statement below EBITDA                        *)
(***************************************************************************)
C27_Income(t, k) == projected_income.at[C20_Year(t)][k]

C27_LatestDA ==
    IF "D&A" \in om.income_statement.columns
    THEN om.income_statement.at[GetLatestYear(om)]["D&A"]
    ELSE Z(0)

C27_TaxRate == GetOr(assumptions.tax_rate, Q(25, 100))

C27_ExpectedDA(t) ==
    IF ~IsZero(C27_LatestDA)
    THEN Neg(Mul(AbsQ(C27_LatestDA), Add(Z(1), Mul(C10_Growth, Q(1, 2)))))
    ELSE Neg(Mul(C27_Income(t, "Revenue"), Q(3, 100)))

\* C27: for every projected year t, D&A_t = -(|LatestD&A| * (1 +
\* revenue_growth*0.5)), the same for all t, when the latest historical D&A is
\* non-zero and -Revenue_t*0.03 otherwise; OperatingIncome_t = EBITDA_t -
\* D&A_t; EBT_t = OperatingIncome_t + InterestExpense_t; TaxExpense_t =
\* -EBT_t*tax_rate; hence NetIncome_t = EBT_t*(1 - tax_rate).
C27_IncomeBelowEbitda ==
    C10_Projected =>
        \A t \in 1 .. om.projection_years :
            /\ C27_Income(t, "D&A") = C27_ExpectedDA(t)
            /\ ~IsZero(C27_LatestDA) => C27_Income(t, "D&A") = C27_Income(1, "D&A")
            /\ C27_Income(t, "OperatingIncome")
                   = Sub(C27_Income(t, "EBITDA"), C27_Income(t, "D&A"))
            /\ C27_Income(t, "EBT")
                   = Add(C27_Income(t, "OperatingIncome"),
                         C27_Income(t, "InterestExpense"))
            /\ C27_Income(t, "TaxExpense")
                   = Neg(Mul(C27_Income(t, "EBT"), C27_TaxRate))
            /\ C27_Income(t, "NetIncome")
                   = Mul(C27_Income(t, "EBT"), Sub(Z(1), C27_TaxRate))

\* C27 witness: two projected years from a latest D&A of 0, so that D&A is 3%
\* of each year's revenue and differs between the years.
C27_Witness ==
    /\ C10_Projected
    /\ om.projection_years = 2
    /\ IsZero(C27_LatestDA)
    /\ C27_Income(2, "D&A") # C27_Income(1, "D&A")
    /\ C27_Income(2, "D&A") = Neg(Mul(C27_Income(2, "Revenue"), Q(3, 100)))
    /\ ~IsZero(C27_Income(2, "NetIncome"))

(***************************************************************************)
(* C28: the stages of calculate_dcf                                        *)
(***************************************************************************)
\* build_model has returned, with a record carrying an 'error' key
C28_ModelBuilt == operating_model_data # NoModelData
C28_ErrorRecord == C28_ModelBuilt /\ operating_model_data.error # ""

\* the positions inside DCFCalculator.calculate_all
C28_InCalculateAll ==
    pc \in {"calculate_wacc", "calculate_free_cash_flow", "calculate_terminal_value",
            "calculate_enterprise_value", "calculate_equity_value",
            "calculate_present_values", "return_summary", "calculate_all_returned"}

\* C28: in calculate_dcf the stages run in the order build_model, then
\* DCFCalculator.calculate_all; whenever build_model returns a record with an
\* 'error' key, no DCFCalculator is created, no valuation is computed, and the
\* handler answers with that record and status 400.
C28_BuildThenValueOrAnswer400 ==
    /\ (dcf # NoObject \/ C28_InCalculateAll \/ dcf_results.returned) =>
          /\ C28_ModelBuilt
          /\ operating_model_data.error = ""
          /\ dcf # NoObject
          /\ dcf.operating_model_data = operating_model_data
    /\ response = 200 => dcf_results.returned
    /\ C28_ErrorRecord =>
          /\ dcf = NoObject
          /\ locals = NoLocals
          /\ ~dcf_results.returned
          /\ pc \in {"build_model_returned", "done"}
          /\ response = IF pc = "done" THEN 400 ELSE 0

\* C28 witness: build_model answered an error record and the handler has
\* answered 400 without a calculator.
C28_Witness ==
    /\ pc = "done"
    /\ C28_ErrorRecord
    /\ om # NoObject
    /\ dcf = NoObject
    /\ response = 400

(***************************************************************************)
(* C29: the cached fields do not depend on the order of the calls          *)
(***************************************************************************)
\* a single calculate_all on a fresh instance with the same inputs
C29_Fresh == CalculateAllOf(NewDCFCalculator(operating_model_data, assumptions))

C29_CachedFields ==
    {"wacc", "free_cash_flows", "terminal_value", "enterprise_value", "equity_value"}

C29_Unset(k) == IF k = "free_cash_flows" THEN NoneSeries ELSE NoneArg

\* some call has changed the object
C29_Called == dcf # NewDCFCalculator(operating_model_data, assumptions)

\* C29 (as claimed): after any sequence of calls to calculate_wacc,
\* calculate_free_cash_flow, calculate_terminal_value,
\* calculate_present_values, calculate_enterprise_value and
\* calculate_equity_value, in any order and with any repetition, wacc,
\* free_cash_flows, terminal_value, enterprise_value and equity_value hold the
\* values a single calculate_all on a fresh instance produces, and a repeated
\* calculate_all returns an identical result.
C29_FieldsAsAfterCalculateAll ==
    (C29_Called /\ C29_Fresh.exc = "none") =>
        /\ \A k \in C29_CachedFields : dcf[k] = C29_Fresh.self[k]
        /\ dcf_results.returned => dcf_results = C29_Fresh.ret

\* C29 (amended): after any such sequence of calls, each of wacc,
\* free_cash_flows, terminal_value, enterprise_value and equity_value is
\* either still unset (None) or holds the value a single calculate_all on a
\* fresh instance produces; operating_model_data and assumptions are not
\* touched; every calculate_all that returns, the first or a repeated one,
\* returns the result of the fresh instance.
C29_SetFieldsAsAfterCalculateAll ==
    /\ dcf.operating_model_data = operating_model_data
    /\ dcf.assumptions = assumptions
    /\ C29_Fresh.exc = "none" =>
          /\ \A k \in C29_CachedFields :
                dcf[k] \in {C29_Unset(k), C29_Fresh.self[k]}
          /\ dcf_results.returned => dcf_results = C29_Fresh.ret
    /\ dcf_results.returned => C29_Fresh.exc = "none"

\* C29 witness: every field set by calls other than calculate_all, with the
\* values of the fresh instance.
C29_Witness ==
    /\ ~dcf_results.returned
    /\ C29_Fresh.exc = "none"
    /\ \A k \in C29_CachedFields :
          dcf[k] # C29_Unset(k) /\ dcf[k] = C29_Fresh.self[k]
    /\ dcf.equity_value.v # dcf.enterprise_value.v

(***************************************************************************)
(* C30: build_model keeps the historical rows and appends the projected    *)
(***************************************************************************)
\* the labels latest_year + 1 .. latest_year + N in order
C30_ProjectedLabels ==
    [t \in 1 .. om.projection_years |-> C20_Year(t)]

\* every historical row of the normalized statement is in the mapping with
\* its normalized values
C30_HistoricalKept(hist, out) ==
    \A i \in 1 .. Len(hist.index) :
        /\ i <= Len(out.keys)
        /\ out.keys[i] = hist.index[i]
        /\ \A k \in hist.columns :
              /\ k \in out.items
              /\ out.cell[hist.index[i]][k] = hist.at[hist.index[i]][k]

\* the rows after the historical ones are the N projected years
C30_ProjectedAppended(hist, out) ==
    out.keys = hist.index \o C30_ProjectedLabels

\* build_model has prepared the three statements, projected them and executed
\* lines 553-606
C30_Combined ==
    /\ ~projected_cashflow.none
    /\ pc \notin {"project_cash_flow", "combine"}
    /\ GetLatestYear(om) # "None"
    /\ ~om.balance_sheet.none
    /\ ~om.cash_flow.none

C30_KeptAndAppended(hist, out) ==
    C30_HistoricalKept(hist, out) /\ C30_ProjectedAppended(hist, out)

\* C30: the caller's historical_data is unchanged after build_model; combining
\* the prepared statements with their projections gives the output in which
\* every historical year keeps exactly its normalized value for every line
\* item of the normalized statement and the projected rows follow under the
\* distinct consecutive labels latest_year+1 .. latest_year+N, exactly N rows
\* per statement.
C30_HistoricalRowsKeptProjectedAppended ==
    /\ om.historical_data = company_data
    /\ C30_Combined =>
          /\ ModelReturned
          /\ C30_KeptAndAppended(om.income_statement,
                                 operating_model_data.income_statement)
          /\ C30_KeptAndAppended(om.balance_sheet,
                                 operating_model_data.balance_sheet)
          /\ C30_KeptAndAppended(om.cash_flow, operating_model_data.cash_flow)

=============================================================================
